---------------------------- MODULE Spec2Model ----------------------------
(***************************************************************************)
(* A model of the Flatpak manifest generator (src/main.py, class           *)
(* FlatpakBuilder): the form, its validator, the manifest/file generator   *)
(* and the saved configuration.                                            *)
(*                                                                         *)
(* A text is a sequence of tokens.  A token is one character ("a", ".",    *)
(* " ", "\n") or one indivisible run of non-blank characters (a flag, a    *)
(* runtime name, a placeholder): every string operation of the code that   *)
(* the model needs (strip, split, the identifier regular expression) works *)
(* on token boundaries.                                                    *)
(***************************************************************************)
EXTENDS Naturals, Integers, Sequences, FiniteSets, TLC

(***************************************************************************)
(* Bounds of the model.                                                    *)
(***************************************************************************)
\* longest identifier typed key by key into the App ID entry
MaxIdLen == 5
\* longest text typed key by key into the custom-permissions box
MaxCustomLen == 3
\* most lines pasted into the dependencies box
MaxDepLines == 2
\* most runs of _run_command_in_thread in a behaviour
MaxRuns == 3
\* the lines a child process writes before it closes its output
MaxLines == 2
\* most hash callbacks waiting in the event loop
MaxShaCalls == 2
\* most error lines a handler adds to a log that no run has cleared
MaxLog == 2

(***************************************************************************)
(* Strings: str.strip, str.split, str.join                                 *)
(***************************************************************************)
Whitespace == {" ", "\n", "\t"}

RECURSIVE LStrip(_)
LStrip(s) == IF s # <<>> /\ Head(s) \in Whitespace THEN LStrip(Tail(s)) ELSE s

RECURSIVE RStrip(_)
RStrip(s) ==
    IF s # <<>> /\ s[Len(s)] \in Whitespace
    THEN RStrip(SubSeq(s, 1, Len(s) - 1)) ELSE s

Strip(s) == RStrip(LStrip(s))

\* s.split(sep): the pieces between the occurrences of sep, empty ones kept
RECURSIVE SplitAcc(_, _, _)
SplitAcc(s, sep, cur) ==
    IF s = <<>> THEN <<cur>>
    ELSE IF Head(s) = sep THEN <<cur>> \o SplitAcc(Tail(s), sep, <<>>)
    ELSE SplitAcc(Tail(s), sep, Append(cur, Head(s)))

Split(s, sep) == SplitAcc(s, sep, <<>>)

\* sep.join(parts)
RECURSIVE Join(_, _)
Join(parts, sep) ==
    IF parts = <<>> THEN <<>>
    ELSE IF Len(parts) = 1 THEN parts[1]
    ELSE parts[1] \o <<sep>> \o Join(Tail(parts), sep)

Range(s) == {s[i] : i \in 1..Len(s)}

\* all sequences over S of length at most n
RECURSIVE SeqsUpTo(_, _)
SeqsUpTo(S, n) ==
    IF n = 0 THEN {<<>>}
    ELSE LET shorter == SeqsUpTo(S, n - 1)
         IN  shorter \cup {Append(s, c) : s \in {t \in shorter : Len(t) = n - 1}, c \in S}

Lower == {"a","b","c","d","e","f","g","h","i","j","k","l","m",
          "n","o","p","q","r","s","t","u","v","w","x","y","z"}
Upper == {"A","B","C","D","E","F","G","H","I","J","K","L","M",
          "N","O","P","Q","R","S","T","U","V","W","X","Y","Z"}
Digit == {"0","1","2","3","4","5","6","7","8","9"}
Letter == Lower \cup Upper

(***************************************************************************)
(* The form: field widgets by kind (_create_*_tab), placeholders           *)
(***************************************************************************)
\* self.fields, in insertion order
FieldOrder == <<"appId", "appName", "author", "summary", "category",
                "runtime", "runtimeVersion", "sdk", "sdkVersion",
                "executable", "buildSystem", "dependencies", "systemDeps",
                "customPerms">>
FieldKeys == Range(FieldOrder)

\* ttk.Combobox(state="readonly"): create_combobox with readonly=True
ReadonlyCombos == {"category", "runtime", "sdk", "buildSystem"}
\* ttk.Combobox(state="normal")
EditableCombos == {"runtimeVersion", "sdkVersion"}
\* scrolledtext.ScrolledText
TextWidgets == {"dependencies", "systemDeps", "customPerms"}
\* ttk.Entry
Entries == {"appId", "appName", "author", "summary", "executable"}

\* self.placeholders (add_placeholder): the placeholder text is one token
PlaceholderKeys == {"appId", "appName", "author", "summary", "executable"}
placeholders ==
    [k \in PlaceholderKeys |->
        CASE k = "appId"      -> <<"e.g., io.github.username.appname">>
          [] k = "appName"    -> <<"e.g., My Awesome Application">>
          [] k = "author"     -> <<"Your name or organization">>
          [] k = "summary"    -> <<"A short, descriptive one-line summary">>
          [] k = "executable" -> <<"e.g., main.py or my-binary">>]

\* the keys of self.validation_errors (the error labels under the widgets)
ErrorLabelKeys == {"appId", "appName", "author", "summary",
                   "runtime", "runtimeVersion", "sdk", "sdkVersion"}

\* self.finish_args_vars with the default states of _create_permissions_tab
PermKeys == {"home", "host", "dri", "usb", "pulseaudio", "network", "x11", "wayland"}
PermDefaults == [k \in PermKeys |-> k \in {"dri", "network", "x11", "wayland"}]

Categories == <<"AudioVideo", "Development", "Education", "Game", "Graphics",
                "Network", "Office", "Science", "System", "Utility">>
BuildSystems == <<"simple", "meson", "cmake-ninja", "autotools", "qmake">>

(***************************************************************************)
(* Runtimes, SDKs and their versions                                       *)
(***************************************************************************)
\* self.VERSION_MAP
VERSION_MAP ==
    [r \in {"org.gnome.Platform", "org.gnome.Sdk", "org.kde.Platform",
            "org.kde.Sdk", "org.freedesktop.Platform", "org.freedesktop.Sdk"} |->
        CASE r \in {"org.gnome.Platform", "org.gnome.Sdk"} -> <<"47", "46", "45", "44">>
          [] r \in {"org.kde.Platform", "org.kde.Sdk"}     -> <<"6.8", "6.7", "6.6">>
          [] OTHER                                         -> <<"23.08", "22.08">>]

\* sorted() on the reference names the model knows: ascending string order
RefOrder == <<"org.freedesktop.Platform", "org.freedesktop.Sdk",
              "org.gnome.Platform", "org.gnome.Sdk",
              "org.kde.Platform", "org.kde.Sdk">>
\* sorted(reverse=True) on the version strings the model knows
VersionOrderDesc == <<"6.8", "6.7", "6.6", "48", "47", "46", "45", "44",
                      "24.08", "23.08", "22.08">>

SortedRefs(S) == SelectSeq(RefOrder, LAMBDA r : r \in S)
SortedVersionsDesc(S) == SelectSeq(VersionOrderDesc, LAMBDA v : v \in S)

\* what `flatpak list --runtime` can report (detect_installed_refs): nothing
\* (flatpak missing or failing), or one installed platform and SDK
DetectOutcomes ==
    { [runtimes |-> <<>>, sdks |-> <<>>],
      [runtimes |-> [r \in {"org.gnome.Platform"} |-> <<"48">>],
       sdks     |-> [r \in {"org.gnome.Sdk"} |-> <<"48">>]] }

\* str.endswith('.Sdk') on reference names
EndsWithSdk(r) == r \in {"org.gnome.Sdk", "org.kde.Sdk", "org.freedesktop.Sdk"}

\* selected_runtime.replace("Platform", "Sdk")
ReplacePlatformBySdk(r) ==
    CASE r = "org.gnome.Platform"       -> "org.gnome.Sdk"
      [] r = "org.kde.Platform"         -> "org.kde.Sdk"
      [] r = "org.freedesktop.Platform" -> "org.freedesktop.Sdk"
      [] OTHER                          -> r

(***************************************************************************)
(* The file system the program sees                                        *)
(***************************************************************************)
SourceDir == "/home/u/proj"
SourceArchive == "/home/u/app.tar.gz"
IconFile == "/home/u/icon.png"
\* the directory the user picks in "Select Project Directory"
SaveDirs == {"/home/u/out"}
\* the file the user picks in "Save Config" / "Load Config"
ConfigPath == <<"/home/u", <<"cfg.json">>>>
NoPath == <<>>

(***************************************************************************)
(* State                                                                   *)
(***************************************************************************)
VARIABLES
    fields,              \* widget contents: self.fields[k], as raw text
    combo_values,        \* the 'values' lists of the platform comboboxes
    validation_errors,   \* the text of the error labels
    finish_args_vars,    \* the permission checkboxes
    source_path,         \* self.source_path
    source_file_sha256,  \* self.source_file_sha256
    icon_file_path,      \* self.icon_file_path
    source_type,         \* self.source_type
    selector_command,    \* the command of the source "Browse..." button
    unsaved_changes,     \* self.unsaved_changes
    last_yml_path,       \* self.last_yml_path
    installed_runtimes,  \* self.installed_runtimes
    installed_sdks,      \* self.installed_sdks
    yaml,                \* whether `import yaml` succeeded
    disk,                \* the files written: path -> content
    after_calls,         \* callbacks scheduled with root.after, not yet run
    last,                \* what the last handler showed and returned
    gen_log,             \* the last two successful runs of generate_files
    hash_threads,        \* the files the _calculate_hash_thread threads read
    sha_calls,           \* the hash callbacks scheduled with root.after(0)
    running_process,     \* self._running_process: 0 for None, or a child
    output_queue,        \* self.output_queue
    tasks,               \* the worker threads of _run_command_in_thread
    children,            \* the child processes started with Popen
    output_text,         \* the "Build Output" log
    progress_bar,        \* whether the busy indicator runs
    poll_timers,         \* pending root.after(100, _process_output_queue)
    on_complete_calls,   \* the on_complete calls scheduled with root.after(0)
    poller,              \* "get" inside the loop of _process_output_queue
    last_build_command,  \* self.last_build_command
    temp_files,          \* self._temp_files
    window,              \* "open", or "destroyed" after root.destroy()
    stdlib_names,        \* whether the interpreter has sys.stdlib_module_names
    deps_threads,        \* the files the dependency threads are to read
    deps_calls           \* what those threads scheduled with root.after(0)

formVars == <<fields, combo_values, validation_errors, finish_args_vars,
              source_path, source_file_sha256, icon_file_path, source_type,
              selector_command>>
\* the state of the background hash computation
hashVars == <<hash_threads, sha_calls>>

\* the state of the external process runner
runVars == <<running_process, output_queue, tasks, children, output_text,
             progress_bar, poll_timers, on_complete_calls, poller>>

\* what lasts for the session: the command shown for copying, the
\* temporary files, the window
\* the state of the dependency generator
depsVars == <<stdlib_names, deps_threads, deps_calls>>

sessionVars == <<last_build_command, temp_files, window, depsVars>>

vars == <<fields, combo_values, validation_errors, finish_args_vars,
          source_path, source_file_sha256, icon_file_path, source_type,
          selector_command, unsaved_changes, last_yml_path,
          installed_runtimes, installed_sdks, yaml, sessionVars, disk, after_calls,
          last, gen_log,
          hashVars, runVars>>

\* a message box the handler showed, with the answer the user gave
Dialog(title, answer) == [title |-> title, answer |-> answer]

\* the record of a handler: the dialogs it showed, the error and warning
\* lists validate_configuration built in it, the paths it wrote, its result
Outcome(op, ret, dialogs, errors, warnings, written) ==
    [op |-> op, ret |-> ret, dialogs |-> dialogs, errors |-> errors,
     warnings |-> warnings, written |-> written]

\* the record of a handler that showed nothing and wrote nothing
Report(op, ret) == Outcome(op, ret, <<>>, <<>>, <<>>, {})

(***************************************************************************)
(* get_available_runtimes, get_available_sdks, _get_combined_versions      *)
(***************************************************************************)
get_available_runtimes(inst_runtimes) ==
    SortedRefs(DOMAIN inst_runtimes \cup DOMAIN VERSION_MAP)

get_available_sdks(inst_sdks) ==
    SortedRefs(DOMAIN inst_sdks \cup {k \in DOMAIN VERSION_MAP : EndsWithSdk(k)})

get_combined_versions(ref_name, installed_dict) ==
    LET versions ==
            (IF ref_name \in DOMAIN installed_dict
             THEN Range(installed_dict[ref_name]) ELSE {})
            \cup (IF ref_name \in DOMAIN VERSION_MAP
                  THEN Range(VERSION_MAP[ref_name]) ELSE {})
    IN  IF versions # {} THEN SortedVersionsDesc(versions) ELSE <<"23.08">>

(***************************************************************************)
(* get_field_value                                                         *)
(***************************************************************************)
\* a reading of the widget that strips but keeps the placeholder text
FieldValueKeepingPlaceholder(k, content) == Strip(content)

\* the value of a widget holding `content`: stripped, "" for the placeholder
FieldValue(k, content) ==
    LET value == Strip(content)
    IN  IF k \in PlaceholderKeys /\ placeholders[k] = value THEN <<>> ELSE value

get_field_value(k) == FieldValue(k, fields[k])

\* the runs of _run_command_in_thread, numbered in the order started
RunIds == 1..MaxRuns

\* a worker thread that was not started, and a child that was not spawned
IdleTask ==
    [pc |-> "idle", kind |-> "none", reader |-> 0, line |-> 0, rc |-> 0,
     sentinels |-> 0, scheduled |-> 0, late_puts |-> 0, after |-> 0]
NoChild ==
    [state |-> "none", out |-> 0, closed |-> FALSE, code |-> 0,
     terminated |-> FALSE]

(***************************************************************************)
(* Construction: __init__                                                  *)
(***************************************************************************)
Constructed(has_stdlib_names) ==
    \E found \in DetectOutcomes :
        /\ installed_runtimes = found.runtimes
        /\ installed_sdks = found.sdks
        /\ fields =
            [k \in FieldKeys |->
                CASE k \in PlaceholderKeys -> placeholders[k]
                  [] k = "category"    -> <<Categories[1]>>
                  [] k = "buildSystem" -> <<BuildSystems[1]>>
                  [] k = "runtime"     -> <<get_available_runtimes(found.runtimes)[1]>>
                  [] k = "sdk"         -> <<get_available_sdks(found.sdks)[1]>>
                  [] OTHER             -> <<>>]
        /\ combo_values =
            [k \in {"runtime", "sdk", "runtimeVersion", "sdkVersion"} |->
                CASE k = "runtime" -> get_available_runtimes(found.runtimes)
                  [] k = "sdk"     -> get_available_sdks(found.sdks)
                  [] OTHER         -> <<>>]
        /\ validation_errors = [k \in ErrorLabelKeys |-> ""]
        /\ finish_args_vars = PermDefaults
        /\ source_path = ""
        /\ source_file_sha256 = "Not calculated"
        /\ icon_file_path = ""
        /\ source_type = "directory"
        /\ selector_command = "select_source_directory"
        /\ unsaved_changes = FALSE
        /\ last_yml_path = NoPath
        /\ yaml \in BOOLEAN
        /\ disk = <<>>
        /\ after_calls = {}
        /\ last = Report("__init__", "None")
        /\ gen_log = <<>>
        /\ hash_threads = {}
        /\ sha_calls = <<>>
        /\ running_process = 0
        /\ output_queue = <<>>
        /\ tasks = [w \in RunIds |-> IdleTask]
        /\ children = [c \in RunIds |-> NoChild]
        /\ output_text = <<>>
        /\ progress_bar = FALSE
        /\ poll_timers = 0
        /\ on_complete_calls = <<>>
        /\ poller = "idle"
        /\ last_build_command = <<>>
        /\ temp_files = {}
        /\ window = "open"
        /\ stdlib_names = has_stdlib_names
        /\ deps_threads = <<>>
        /\ deps_calls = <<>>

\* the application on an interpreter that has sys.stdlib_module_names
Init == Constructed(TRUE)


(***************************************************************************)
(* The identifier pattern of validate_field and validate_configuration:    *)
(* a segment is a letter followed by any number of letters, digits and     *)
(* underscores; the pattern is a segment followed by two or more groups of *)
(* a dot and a segment, anchored at both ends.                             *)
(***************************************************************************)
\* the automaton of the pattern: st is "start" (a segment must begin),
\* or "seg" (inside a segment); dots counts the "." read, up to 2
RECURSIVE PatternRun(_, _, _)
PatternRun(s, st, dots) ==
    IF s = <<>> THEN st = "seg" /\ dots >= 2
    ELSE LET c == Head(s)
         IN  IF st = "start"
             THEN c \in Letter /\ PatternRun(Tail(s), "seg", dots)
             ELSE \/ c \in Letter \cup Digit \cup {"_"} /\ PatternRun(Tail(s), "seg", dots)
                  \/ c = "." /\ PatternRun(Tail(s), "start", IF dots < 2 THEN dots + 1 ELSE 2)

\* a pattern that asks for one group of a dot and a segment, not two
MatchesWithOneGroup(s) == PatternRun(s, "start", 1)

\* re.match(pattern, s): "$" also matches just before one trailing newline
MatchesAppIdPattern(s) ==
    \/ PatternRun(s, "start", 0)
    \/ s # <<>> /\ s[Len(s)] = "\n" /\ PatternRun(SubSeq(s, 1, Len(s) - 1), "start", 0)

\* validate_dns_format: the lowercase test only writes to the log
validate_dns_format(app_id) ==
    LET parts == Split(app_id, ".")
    IN  IF Len(parts) < 3 THEN FALSE
        ELSE \A i \in 1..Len(parts) : Len(parts[i]) >= 1

(***************************************************************************)
(* validate_field: the text it puts in the error label of field_key        *)
(***************************************************************************)
validate_field_label(field_key, value, required) ==
    IF required /\ value = <<>> THEN "This field is required"
    ELSE IF field_key = "appId" /\ value # <<>> /\ ~MatchesAppIdPattern(value)
    THEN "Invalid App ID format. e.g.: com.example.app"
    ELSE ""

validate_field(labels, field_key, required) ==
    IF field_key \notin ErrorLabelKeys THEN labels
    ELSE [labels EXCEPT ![field_key] =
            validate_field_label(field_key, get_field_value(field_key), required)]

(***************************************************************************)
(* validate_configuration                                                  *)
(***************************************************************************)
\* the `required` dictionary, in order
required ==
    << [field |-> "appId",          label |-> "App ID"],
       [field |-> "appName",        label |-> "App Name"],
       [field |-> "summary",        label |-> "Summary"],
       [field |-> "runtime",        label |-> "Runtime"],
       [field |-> "runtimeVersion", label |-> "Runtime Version"],
       [field |-> "sdk",            label |-> "SDK"],
       [field |-> "sdkVersion",     label |-> "SDK Version"] >>

MissingFieldError(label) == <<"Missing required field: ", label>>
ReverseDnsError == <<"App ID must use reverse DNS notation (e.g., io.github.username.app)">>
SourceRequiredError == <<"Source location is required">>
LowercaseWarning ==
    <<"App ID format may not follow all common best practices (e.g., should be all lowercase).">>

\* the `errors` list validate_configuration builds from the form
ValidationErrors ==
    LET missing == SelectSeq(required, LAMBDA r : get_field_value(r.field) = <<>>)
        app_id  == get_field_value("appId")
    IN  [i \in 1..Len(missing) |-> MissingFieldError(missing[i].label)]
        \o (IF app_id # <<>> /\ ~MatchesAppIdPattern(app_id)
            THEN <<ReverseDnsError>> ELSE <<>>)
        \o (IF source_path = "" THEN <<SourceRequiredError>> ELSE <<>>)

\* the `warnings` list
ValidationWarnings ==
    LET app_id == get_field_value("appId")
    IN  IF app_id # <<>> /\ MatchesAppIdPattern(app_id) /\ ~validate_dns_format(app_id)
        THEN <<LowercaseWarning>> ELSE <<>>

\* the return value: False after the error dialog, the user's answer to the
\* "Continue anyway?" dialog when there are only warnings, True otherwise
ValidationResult(continue_anyway) ==
    IF ValidationErrors # <<>> THEN FALSE
    ELSE IF ValidationWarnings # <<>> THEN continue_anyway
    ELSE TRUE

BoolText(b) == IF b THEN "True" ELSE "False"

\* the one message box validate_configuration shows
ValidationDialogs(continue_anyway) ==
    IF ValidationErrors # <<>> THEN <<Dialog("Validation Failed", "ok")>>
    ELSE IF ValidationWarnings # <<>>
    THEN <<Dialog("Validation Warnings", IF continue_anyway THEN "yes" ELSE "no")>>
    ELSE <<Dialog("Validation Passed", "ok")>>

\* the Validate button and the Tools menu entry
validate_configuration(continue_anyway) ==
    /\ last' = Outcome("validate_configuration",
                       BoolText(ValidationResult(continue_anyway)),
                       ValidationDialogs(continue_anyway),
                       ValidationErrors, ValidationWarnings, {})
    /\ UNCHANGED <<formVars, unsaved_changes, last_yml_path, installed_runtimes,
                   installed_sdks, yaml, sessionVars, disk, after_calls, gen_log,
                   hashVars, runVars>>

(***************************************************************************)
(* What the user does to the widgets                                       *)
(***************************************************************************)
\* on_focus_in: an entry that still shows its placeholder is cleared
on_focus_in(k, content) ==
    IF k \in PlaceholderKeys /\ content = placeholders[k] THEN <<>> ELSE content

\* on_focus_out: a blank entry shows its placeholder again
on_focus_out(k, content) ==
    IF k \in PlaceholderKeys /\ Strip(content) = <<>> THEN placeholders[k] ELSE content

Typeable == Entries \cup EditableCombos \cup TextWidgets

\* the widget gets the focus and one key is typed at the end of its text;
\* <KeyRelease> is bound to _set_unsaved_changes (_bind_events)
KeyPress(k, c) ==
    /\ k \in Typeable
    /\ fields' = [fields EXCEPT ![k] = Append(on_focus_in(k, @), c)]
    /\ unsaved_changes' = TRUE
    /\ last' = Report("input", "None")
    /\ UNCHANGED <<combo_values, validation_errors, finish_args_vars, source_path,
                   source_file_sha256, icon_file_path, source_type,
                   selector_command, last_yml_path, installed_runtimes,
                   installed_sdks, yaml, sessionVars, disk, after_calls, gen_log,
                   hashVars, runVars>>

\* the widget gets the focus and its last character is erased
BackSpace(k) ==
    /\ k \in Typeable
    /\ on_focus_in(k, fields[k]) # <<>>
    /\ fields' = [fields EXCEPT ![k] =
                    SubSeq(on_focus_in(k, @), 1, Len(on_focus_in(k, @)) - 1)]
    /\ unsaved_changes' = TRUE
    /\ last' = Report("input", "None")
    /\ UNCHANGED <<combo_values, validation_errors, finish_args_vars, source_path,
                   source_file_sha256, icon_file_path, source_type,
                   selector_command, last_yml_path, installed_runtimes,
                   installed_sdks, yaml, sessionVars, disk, after_calls, gen_log,
                   hashVars, runVars>>

\* the whole text of the widget is replaced (select all, paste)
Paste(k, text) ==
    /\ k \in Typeable
    /\ fields' = [fields EXCEPT ![k] = text]
    /\ unsaved_changes' = TRUE
    /\ last' = Report("input", "None")
    /\ UNCHANGED <<combo_values, validation_errors, finish_args_vars, source_path,
                   source_file_sha256, icon_file_path, source_type,
                   selector_command, last_yml_path, installed_runtimes,
                   installed_sdks, yaml, sessionVars, disk, after_calls, gen_log,
                   hashVars, runVars>>

\* <FocusOut>: on_focus_out for the App ID and executable entries; for the
\* entries of create_entry_with_validation the later bind of validate_field
\* replaced on_focus_out
FocusOut(k) ==
    /\ k \in Entries
    /\ IF k \in {"appId", "executable"}
       THEN /\ fields' = [fields EXCEPT ![k] = on_focus_out(k, @)]
            /\ UNCHANGED validation_errors
       ELSE /\ validation_errors' = validate_field(validation_errors, k, TRUE)
            /\ UNCHANGED fields
    /\ last' = Report("input", "None")
    /\ UNCHANGED <<combo_values, finish_args_vars, source_path,
                   source_file_sha256, icon_file_path, source_type,
                   selector_command, unsaved_changes, last_yml_path,
                   installed_runtimes, installed_sdks, yaml, sessionVars, disk, after_calls,
                   gen_log,
                   hashVars, runVars>>

\* a permission checkbox is clicked; the variable's write trace is
\* _set_unsaved_changes
TogglePermission(k) ==
    /\ k \in PermKeys
    /\ finish_args_vars' = [finish_args_vars EXCEPT ![k] = ~@]
    /\ unsaved_changes' = TRUE
    /\ last' = Report("input", "None")
    /\ UNCHANGED <<fields, combo_values, validation_errors, source_path,
                   source_file_sha256, icon_file_path, source_type,
                   selector_command, last_yml_path, installed_runtimes,
                   installed_sdks, yaml, sessionVars, disk, after_calls, gen_log,
                   hashVars, runVars>>


(***************************************************************************)
(* Source, icon and source type                                            *)
(***************************************************************************)
\* os.path.isdir / os.path.isfile on the paths the model knows
IsDir(path) == path \in {SourceDir} \cup SaveDirs
IsFile(path) == path \in {SourceArchive, IconFile}

\* what os.walk finds for autodetect_executable: the project holds main.py
\* at its root
AutodetectedExecutable(source_dir) ==
    IF source_dir = SourceDir THEN <<"main", ".py">> ELSE <<>>

\* update_source_ui: the Browse button follows the source type, and the
\* source path and the hash are reset
update_source_ui ==
    /\ selector_command' = (IF source_type' = "archive" THEN "select_source_archive"
                            ELSE "select_source_directory")
    /\ source_path' = ""
    /\ source_file_sha256' = "Not calculated"

\* a click on one of the two "Source Type" radio buttons, whose command is
\* update_source_ui
SelectSourceType(t) ==
    /\ source_type' = t
    /\ update_source_ui
    /\ last' = Report("update_source_ui", "None")
    /\ UNCHANGED <<fields, combo_values, validation_errors, finish_args_vars,
                   icon_file_path, unsaved_changes, last_yml_path,
                   installed_runtimes, installed_sdks, yaml, sessionVars, disk, after_calls,
                   gen_log,
                   hashVars, runVars>>

\* the Browse button while its command is select_source_directory; dirpath
\* is "" when the dialog is cancelled
select_source_directory(dirpath) ==
    /\ selector_command = "select_source_directory"
    /\ source_path' = (IF dirpath # "" THEN dirpath ELSE source_path)
    /\ after_calls' = (IF get_field_value("executable") = <<>>
                       THEN after_calls \cup {"autodetect_executable"}
                       ELSE after_calls)
    /\ last' = Report("select_source_directory", "None")
    /\ UNCHANGED <<fields, combo_values, validation_errors, finish_args_vars,
                   source_file_sha256, icon_file_path, source_type,
                   selector_command, unsaved_changes, last_yml_path,
                   installed_runtimes, installed_sdks, yaml, sessionVars, disk, gen_log,
                   hashVars, runVars>>

\* the timer callback scheduled by select_source_directory
autodetect_executable ==
    /\ "autodetect_executable" \in after_calls
    /\ after_calls' = after_calls \ {"autodetect_executable"}
    /\ fields' = (IF IsDir(source_path) /\ AutodetectedExecutable(source_path) # <<>>
                  THEN [fields EXCEPT !["executable"] = AutodetectedExecutable(source_path)]
                  ELSE fields)
    /\ last' = Report("autodetect_executable", "None")
    /\ UNCHANGED <<combo_values, validation_errors, finish_args_vars, source_path,
                   source_file_sha256, icon_file_path, source_type,
                   selector_command, unsaved_changes, last_yml_path,
                   installed_runtimes, installed_sdks, yaml, sessionVars, disk, gen_log,
                   hashVars, runVars>>

\* calculate_sha256: the digest of an archive the model knows; open() raises
\* for any other path, the "" of a cancelled dialog included
Sha256(filepath) ==
    IF filepath = SourceArchive THEN "sha256 of app.tar.gz" ELSE "Error"

\* the Browse button while its command is select_source_archive; filepath
\* is "" when the dialog is cancelled, and the hash thread is started in
\* either case
select_source_archive(filepath) ==
    /\ selector_command = "select_source_archive"
    /\ Len(sha_calls) + Cardinality(hash_threads) < MaxShaCalls
    /\ source_path' = (IF filepath # "" THEN filepath ELSE source_path)
    /\ progress_bar' = TRUE
    /\ hash_threads' = hash_threads \cup {filepath}
    /\ last' = Report("select_source_archive", "None")
    /\ UNCHANGED <<fields, combo_values, validation_errors, finish_args_vars,
                   source_file_sha256, icon_file_path, source_type,
                   selector_command, unsaved_changes, last_yml_path,
                   installed_runtimes, installed_sdks, yaml, sessionVars, disk, after_calls,
                   gen_log, sha_calls, running_process, output_queue, tasks,
                   children, output_text, poll_timers, on_complete_calls,
                   poller>>

\* _calculate_hash_thread on filepath comes to its end: it schedules the
\* callback that shows the digest, or "Error" when calculate_sha256 raised
calculate_hash_thread(filepath) ==
    /\ filepath \in hash_threads
    /\ hash_threads' = hash_threads \ {filepath}
    /\ sha_calls' = Append(sha_calls, Sha256(filepath))
    /\ UNCHANGED <<formVars, unsaved_changes, last_yml_path, installed_runtimes,
                   installed_sdks, yaml, sessionVars, disk, after_calls, last, gen_log,
                   runVars>>

\* the event loop runs the oldest hash callback, and the progress_bar.stop
\* scheduled right after it
hash_callback ==
    /\ sha_calls # <<>>
    /\ source_file_sha256' = Head(sha_calls)
    /\ sha_calls' = Tail(sha_calls)
    /\ progress_bar' = FALSE
    /\ UNCHANGED <<fields, combo_values, validation_errors, finish_args_vars,
                   source_path, icon_file_path, source_type, selector_command,
                   unsaved_changes, last_yml_path, installed_runtimes,
                   installed_sdks, yaml, sessionVars, disk, after_calls, last, gen_log,
                   hash_threads, running_process, output_queue, tasks,
                   children, output_text, poll_timers, on_complete_calls,
                   poller>>

\* the icon's Browse button; filepath is "" when the dialog is cancelled
select_icon_file(filepath) ==
    /\ icon_file_path' = (IF filepath # "" THEN filepath ELSE icon_file_path)
    /\ last' = Report("select_icon_file", "None")
    /\ UNCHANGED <<fields, combo_values, validation_errors, finish_args_vars,
                   source_path, source_file_sha256, source_type,
                   selector_command, unsaved_changes, last_yml_path,
                   installed_runtimes, installed_sdks, yaml, sessionVars, disk, after_calls,
                   gen_log,
                   hashVars, runVars>>

(***************************************************************************)
(* The comboboxes                                                          *)
(***************************************************************************)
\* on_sdk_selected, on the widget contents f and the value lists cv
on_sdk_selected(f, cv, inst_sdks) ==
    LET selected_sdk    == f["sdk"][1]
        versions        == get_combined_versions(selected_sdk, inst_sdks)
        runtime_version == f["runtimeVersion"]
    IN  [fields |-> [f EXCEPT !["sdkVersion"] =
                        IF Len(runtime_version) = 1 /\ runtime_version[1] \in Range(versions)
                        THEN runtime_version ELSE <<versions[1]>>],
         combo_values |-> [cv EXCEPT !["sdkVersion"] = versions]]

\* on_runtime_selected, which ends with on_sdk_selected
on_runtime_selected(f, cv, inst_runtimes, inst_sdks) ==
    LET selected_runtime  == f["runtime"][1]
        corresponding_sdk == ReplacePlatformBySdk(selected_runtime)
        sdk_options       == get_available_sdks(inst_sdks)
        versions          == get_combined_versions(selected_runtime, inst_runtimes)
        f1 == [f EXCEPT !["sdk"] = IF corresponding_sdk \in Range(sdk_options)
                                   THEN <<corresponding_sdk>> ELSE <<sdk_options[1]>>,
                        !["runtimeVersion"] = <<versions[1]>>]
        cv1 == [cv EXCEPT !["sdk"] = sdk_options, !["runtimeVersion"] = versions]
    IN  on_sdk_selected(f1, cv1, inst_sdks)

\* the values a combobox offers
ComboChoices(k) ==
    CASE k = "category"    -> Range(Categories)
      [] k = "buildSystem" -> Range(BuildSystems)
      [] OTHER             -> Range(combo_values[k])

\* the user picks v in the drop-down list of combobox k; what follows is the
\* handler bound to <<ComboboxSelected>>
SelectCombo(k, v) ==
    /\ k \in ReadonlyCombos \cup EditableCombos
    /\ v \in ComboChoices(k)
    /\ LET f == [fields EXCEPT ![k] = <<v>>]
       IN  CASE k = "runtime" ->
                  LET r == on_runtime_selected(f, combo_values,
                                               installed_runtimes, installed_sdks)
                  IN  /\ fields' = r.fields
                      /\ combo_values' = r.combo_values
                      /\ UNCHANGED validation_errors
             [] k = "sdk" ->
                  LET r == on_sdk_selected(f, combo_values, installed_sdks)
                  IN  /\ fields' = r.fields
                      /\ combo_values' = r.combo_values
                      /\ UNCHANGED validation_errors
             [] k \in EditableCombos ->
                  /\ fields' = f
                  /\ validation_errors' =
                        [validation_errors EXCEPT ![k] =
                            validate_field_label(k, FieldValue(k, <<v>>), TRUE)]
                  /\ UNCHANGED combo_values
             [] OTHER ->
                  /\ fields' = f
                  /\ UNCHANGED <<combo_values, validation_errors>>
    /\ last' = Report("input", "None")
    /\ UNCHANGED <<finish_args_vars, source_path, source_file_sha256,
                   icon_file_path, source_type, selector_command,
                   unsaved_changes, last_yml_path, installed_runtimes,
                   installed_sdks, yaml, sessionVars, disk, after_calls, gen_log,
                   hashVars, runVars>>

\* refresh_runtime_list (F5): the installed references are read again
refresh_runtime_list(found) ==
    /\ installed_runtimes' = found.runtimes
    /\ installed_sdks' = found.sdks
    /\ LET cv == [combo_values EXCEPT
                    !["runtime"] = get_available_runtimes(found.runtimes),
                    !["sdk"] = get_available_sdks(found.sdks)]
           r == on_runtime_selected(fields, cv, found.runtimes, found.sdks)
       IN  /\ fields' = r.fields
           /\ combo_values' = r.combo_values
    /\ last' = Report("refresh_runtime_list", "None")
    /\ UNCHANGED <<validation_errors, finish_args_vars, source_path,
                   source_file_sha256, icon_file_path, source_type,
                   selector_command, unsaved_changes, last_yml_path, yaml, sessionVars, disk,
                   after_calls, gen_log,
                   hashVars, runVars>>

(***************************************************************************)
(* new_project                                                             *)
(***************************************************************************)
\* w.delete(0, END) and w.insert(0, p): ttk ignores both on a read-only
\* combobox; a text box is emptied; an entry shows its placeholder again
ClearedWidget(k, content) ==
    CASE k \in TextWidgets    -> <<>>
      [] k \in ReadonlyCombos -> content
      [] k \in PlaceholderKeys -> placeholders[k]
      [] OTHER                -> <<>>

new_project(clear_all) ==
    /\ IF clear_all
       THEN /\ fields' = [k \in FieldKeys |-> ClearedWidget(k, fields[k])]
            /\ source_path' = ""
            /\ icon_file_path' = ""
            /\ source_type' = "directory"
       ELSE UNCHANGED <<fields, source_path, icon_file_path, source_type>>
    /\ last' = Outcome("new_project", "None",
                       <<Dialog("New Project", IF clear_all THEN "yes" ELSE "no")>>,
                       <<>>, <<>>, {})
    /\ UNCHANGED <<combo_values, validation_errors, finish_args_vars,
                   source_file_sha256, selector_command, unsaved_changes,
                   last_yml_path, installed_runtimes, installed_sdks, yaml, sessionVars, disk,
                   after_calls, gen_log,
                   hashVars, runVars>>


(***************************************************************************)
(* _generate_finish_args                                                   *)
(***************************************************************************)
\* the `perms` dictionary, in order
perms ==
    << [key |-> "x11",     arg |-> "--socket=x11"],
       [key |-> "wayland", arg |-> "--socket=wayland"],
       [key |-> "network", arg |-> "--share=network"],
       [key |-> "home",    arg |-> "--filesystem=home"],
       [key |-> "dri",     arg |-> "--device=dri"] >>

IpcFlag == <<"--share=ipc">>
FallbackFlag == <<"--socket=fallback-x11">>

\* `sub in text` for the flags of the fixed part and the two words sought
TokenContains(token, sub) ==
    \/ sub = "x11" /\ token \in {"--socket=x11", "--socket=fallback-x11"}
    \/ sub = "wayland" /\ token = "--socket=wayland"

\* a search that takes the first flag of the list for every word sought
FirstFlagContains(args, sub) == args # <<>> /\ sub \in {"x11", "wayland"}

\* `sub in ' '.join(args)`: a joining blank is part of neither word
JoinedContains(args, sub) ==
    \E i \in 1..Len(args) : \E j \in 1..Len(args[i]) : TokenContains(args[i][j], sub)

\* [l.strip() for l in custom.split('\n') if l.strip()]
CustomLines(custom) ==
    LET lines == Split(custom, "\n")
        kept  == SelectSeq(lines, LAMBDA l : Strip(l) # <<>>)
    IN  [i \in 1..Len(kept) |-> Strip(kept[i])]

\* the flags of the checked permissions in the alphabetical order of the keys
CheckedArgsByKey(toggles) ==
    LET order == <<5, 4, 3, 2, 1>>
        set   == SelectSeq([i \in 1..Len(perms) |-> perms[order[i]]],
                           LAMBDA q : toggles[q.key])
    IN  [i \in 1..Len(set) |-> <<set[i].arg>>]

\* the flags of the checked permissions, in the order of `perms`
CheckedArgs(toggles) ==
    LET set == SelectSeq(perms, LAMBDA q : toggles[q.key])
    IN  [i \in 1..Len(set) |-> <<set[i].arg>>]

generate_finish_args(toggles, custom) ==
    LET args  == <<IpcFlag>> \o CheckedArgs(toggles)
        args2 == IF ~(JoinedContains(args, "x11") \/ JoinedContains(args, "wayland"))
                 THEN Append(args, FallbackFlag) ELSE args
    IN  IF custom # <<>> THEN args2 \o CustomLines(custom) ELSE args2

(***************************************************************************)
(* _generate_main_module                                                   *)
(***************************************************************************)
\* re.sub(r'[^a-zA-Z0-9_-]', '', name.replace(' ', '-')) or "app"
SanitizedAppName(name) ==
    LET dashed == [i \in 1..Len(name) |-> IF name[i] = " " THEN "-" ELSE name[i]]
        kept   == SelectSeq(dashed, LAMBDA c : c \in Letter \cup Digit \cup {"_", "-"})
    IN  IF kept # <<>> THEN kept ELSE <<"a", "p", "p">>

\* a test that looks for the extension anywhere in the name
ContainsPy(name) == \E i \in 1..Len(name) : name[i] = ".py"

\* str.endswith('.py'): the extension is the last token of the name
EndsWithPy(name) == name # <<>> /\ name[Len(name)] = ".py"

\* os.path.basename
Basename(path) ==
    CASE path = SourceArchive -> "app.tar.gz"
      [] path = IconFile      -> "icon.png"
      [] path = SourceDir     -> "proj"
      [] OTHER                -> path

\* the three build commands of a directory source; the wrapper script runs
\* the interpreter on a .py executable and the executable itself otherwise
BuildCommands(data, app_name) ==
    << [run |-> "install -d", dir |-> <<"/app/share/">> \o app_name],
       [run |-> "cp -a", from |-> <<"./*">>, to |-> <<"/app/share/">> \o app_name \o <<"/">>],
       [run |-> "install -Dm755 /dev/stdin",
        to |-> <<"/app/bin/">> \o app_name,
        script |-> (IF EndsWithPy(data["executable"]) THEN <<"python3 ">> ELSE <<"exec ">>)
                   \o <<"/app/share/">> \o app_name \o <<"/">> \o data["executable"]
                   \o <<" \"$@\"">>] >>

\* the module dictionary; build_commands is <<>> when the key is absent
generate_main_module(data, app_name) ==
    [name |-> app_name,
     buildsystem |-> data["buildSystem"],
     build_commands |->
        IF data["buildSystem"] = <<"simple">> /\ source_type = "directory"
        THEN BuildCommands(data, app_name) ELSE <<>>,
     sources |->
        IF source_type = "archive"
        THEN <<[type |-> "archive", path |-> Basename(source_path),
                sha256 |-> source_file_sha256]>>
        ELSE <<[type |-> "dir", path |-> source_path, sha256 |-> ""]>>]

(***************************************************************************)
(* yaml.safe_load on the dependencies text.  The model reads the YAML      *)
(* documents whose lines, all at column 0, are each one of: a sequence     *)
(* entry, a mapping entry, a comment, an opening flow bracket, blank.      *)
(***************************************************************************)
ItemLines == {"- name: dep1", "- name: dep2"}
PairLines == {"name: dep1"}
CommentLines == {"# requirements.txt is empty or only contains comments."}
OpenLines == {"["}

\* the value of a sequence entry
ItemOf(token) == [name |-> IF token = "- name: dep1" THEN "dep1" ELSE "dep2"]

\* the module of run_dependency_generator's task
PythonDependencies(install_command) ==
    [name |-> "python-dependencies", buildsystem |-> "simple",
     build_args |-> <<"--share=network">>,
     build_commands |-> <<install_command>>,
     sources |-> <<[type |-> "script",
                    commands |-> <<"echo 'Installing Python dependencies...'">>]>>]

\* yaml.dump(module, sort_keys=False, indent=2) of that one-module list: the
\* entry opens with the keys before the command and closes with the sources
DumpHead == "- name: python-dependencies buildsystem: simple build-options: build-args: - --share=network build-commands: - "
DumpTail == " sources: - type: script commands: - echo 'Installing Python dependencies...'"

yaml_dump(module) ==
    <<DumpHead>> \o module[1].build_commands[1] \o <<DumpTail, "\n">>

\* whether the stripped line is such an entry
IsDumpedModule(l) == Len(l) > 1 /\ l[1] = DumpHead /\ l[Len(l)] = DumpTail

\* the value of a sequence entry of either kind
EntryOf(l) ==
    IF IsDumpedModule(l) THEN PythonDependencies(SubSeq(l, 2, Len(l) - 1))
    ELSE ItemOf(l[1])

LineKind(line) ==
    LET l == Strip(line)
    IN  CASE l = <<>>                                -> "blank"
          [] Len(l) = 1 /\ l[1] \in ItemLines        -> "item"
          [] Len(l) = 1 /\ l[1] \in PairLines        -> "pair"
          [] Len(l) = 1 /\ l[1] \in CommentLines     -> "comment"
          [] Len(l) = 1 /\ l[1] \in OpenLines        -> "open"
          [] IsDumpedModule(l)                      -> "item"
          [] OTHER                                   -> "other"

\* [kind |-> "list", items |-> ...] for a block sequence; "map" for a block
\* mapping, "none" for a document without content, "error" for YAMLError
safe_load(text) ==
    LET lines   == Split(text, "\n")
        content == SelectSeq(lines, LAMBDA l : LineKind(l) \notin {"blank", "comment"})
        kinds   == {LineKind(content[i]) : i \in 1..Len(content)}
    IN  CASE content = <<>>    -> [kind |-> "none", items |-> <<>>]
          [] kinds = {"item"}  -> [kind |-> "list",
                                   items |-> [i \in 1..Len(content) |->
                                                EntryOf(Strip(content[i]))]]
          [] kinds = {"pair"}  -> [kind |-> "map", items |-> <<>>]
          [] OTHER             -> [kind |-> "error", items |-> <<>>]

(***************************************************************************)
(* _generate_manifest_content                                              *)
(***************************************************************************)
\* the modules that come from the dependencies text: those of a YAML list;
\* none when the text is empty, when safe_load raises (also for want of
\* PyYAML, where the call itself raises) or when the value is no list
DependencyModules(deps_text) ==
    IF deps_text = <<>> \/ ~yaml THEN <<>>
    ELSE LET deps == safe_load(deps_text)
         IN  IF deps.kind = "list" THEN deps.items ELSE <<>>

\* a manifest dictionary whose module list begins with the main module
ManifestMainFirst(data, app_name, finish_args, main_module) ==
    [app_id          |-> data["appId"],
     runtime         |-> data["runtime"],
     runtime_version |-> data["runtimeVersion"],
     sdk             |-> data["sdk"],
     command         |-> app_name,
     finish_args     |-> finish_args,
     modules         |-> <<main_module>>
                         \o DependencyModules(get_field_value("dependencies"))]

\* the `manifest` dictionary
Manifest(data, app_name, finish_args, main_module) ==
    [app_id          |-> data["appId"],
     runtime         |-> data["runtime"],
     runtime_version |-> data["runtimeVersion"],
     sdk             |-> data["sdk"],
     command         |-> app_name,
     finish_args     |-> finish_args,
     modules         |-> Append(DependencyModules(get_field_value("dependencies")),
                                main_module)]

\* yaml.dump(manifest, sort_keys=False, indent=2), or the comment written
\* when PyYAML is missing
generate_manifest_content(data, app_name, finish_args, main_module) ==
    IF yaml
    THEN [kind |-> "yaml", doc |-> Manifest(data, app_name, finish_args, main_module)]
    ELSE [kind |-> "text", text |-> <<"# PyYAML not installed">>]


(***************************************************************************)
(* The files generate_files writes                                         *)
(***************************************************************************)
\* {k: self.get_field_value(k) for k in self.fields}
Data == [k \in FieldKeys |-> get_field_value(k)]

\* os.path.join(save_dir, name)
PathIn(save_dir, name) == <<save_dir, name>>

\* open(path, "w").write(content) on the file system d
WriteFile(d, path, content) ==
    [q \in DOMAIN d \cup {path} |-> IF q = path THEN content ELSE d[q]]

RECURSIVE WriteAll(_, _)
WriteAll(d, writes) ==
    IF writes = <<>> THEN d
    ELSE WriteAll(WriteFile(d, writes[1].path, writes[1].content), Tail(writes))

\* the manifest text, from the form alone
ManifestContent ==
    LET app_name == SanitizedAppName(Data["appName"])
    IN  generate_manifest_content(Data, app_name,
            generate_finish_args(finish_args_vars, get_field_value("customPerms")),
            generate_main_module(Data, app_name))

\* _write_desktop_file
DesktopContent ==
    [kind |-> "desktop", Name |-> Data["appName"], Comment |-> Data["summary"],
     Exec |-> SanitizedAppName(Data["appName"]), Icon |-> Data["appId"],
     Type |-> "Application", Categories |-> Data["category"]]

\* a build script that names the manifest of the earlier run, when there
\* was one
BuildScriptNamingLastManifest ==
    [kind |-> "script",
     command |-> <<"flatpak-builder --user --install --force-clean build-dir ">>
                 \o (IF last_yml_path = NoPath THEN Data["appId"] \o <<".yml">>
                     ELSE <<last_yml_path[1], "/">> \o last_yml_path[2]),
     mode |-> "755"]

\* _write_build_script: the script and its mode
BuildScriptContent ==
    [kind |-> "script",
     command |-> <<"flatpak-builder --user --install --force-clean build-dir ">>
                 \o Data["appId"] \o <<".yml">>,
     mode |-> "755"]

\* _write_readme
ReadmeContent ==
    [kind |-> "readme", title |-> Data["appName"],
     run |-> <<"flatpak run ">> \o Data["appId"]]

\* the six writing steps of generate_files, in order; a step is skipped
\* when `active` is false, and a copy raises when its source is no file
GenerationSteps(save_dir) ==
    << [path |-> PathIn(save_dir, Data["appId"] \o <<".yml">>),
        content |-> ManifestContent, active |-> TRUE, raises |-> FALSE],
       [path |-> PathIn(save_dir, Data["appId"] \o <<".desktop">>),
        content |-> DesktopContent, active |-> TRUE, raises |-> FALSE],
       [path |-> PathIn(save_dir, <<Basename(icon_file_path)>>),
        content |-> [kind |-> "copy", of |-> icon_file_path],
        active |-> icon_file_path # "", raises |-> ~IsFile(icon_file_path)],
       [path |-> PathIn(save_dir, <<Basename(source_path)>>),
        content |-> [kind |-> "copy", of |-> source_path],
        active |-> source_type = "archive" /\ source_path # "",
        raises |-> ~IsFile(source_path)],
       [path |-> PathIn(save_dir, <<"build.sh">>),
        content |-> BuildScriptContent, active |-> TRUE, raises |-> FALSE],
       [path |-> PathIn(save_dir, <<"README.md">>),
        content |-> ReadmeContent, active |-> TRUE, raises |-> FALSE] >>

\* the first step that raises: step fail_at when the file system fails
\* there, or an earlier copy whose source is missing; 0 when none does
FirstFailure(steps, fail_at) ==
    LET failing == {i \in 1..Len(steps) :
                        steps[i].active /\ (i = fail_at \/ steps[i].raises)}
    IN  IF failing = {} THEN 0
        ELSE CHOOSE i \in failing : \A j \in failing : i <= j

\* the writes done before the first failure
WritesDone(steps, fail_at) ==
    LET stop == FirstFailure(steps, fail_at)
        idx  == SelectSeq([i \in 1..Len(steps) |-> i],
                          LAMBDA i : steps[i].active /\ (stop = 0 \/ i < stop))
    IN  [n \in 1..Len(idx) |-> [path |-> steps[idx[n]].path,
                                content |-> steps[idx[n]].content]]

\* the log of the last two generations that succeeded, the newer one last
Logged(log, run) == IF Len(log) < 2 THEN Append(log, run) ELSE <<log[2], run>>

\* what generation reads of the form
FormState ==
    [data |-> Data, toggles |-> finish_args_vars, source_path |-> source_path,
     source_type |-> source_type, icon |-> icon_file_path,
     sha256 |-> source_file_sha256]

(***************************************************************************)
(* generate_files                                                          *)
(***************************************************************************)
\* a generator that goes on whatever validate_configuration returned
GenerationAlwaysAllowed(continue_anyway) == TRUE

\* whether generate_files goes on after its call of validate_configuration
GenerationAllowed(continue_anyway) == ValidationResult(continue_anyway)

\* save_dir is "" when the directory dialog is cancelled; fail_at is the
\* step at which the file system fails (0: nowhere).  What a call of
\* generate_files returns and leaves in the variables it writes
GeneratedState(save_dir, continue_anyway, fail_at) ==
    IF ~GenerationAllowed(continue_anyway) \/ save_dir = ""
    THEN [ret |-> FALSE, wrote |-> FALSE, paths |-> {},
          last_yml_path |-> last_yml_path, disk |-> disk,
          unsaved_changes |-> unsaved_changes, gen_log |-> gen_log]
    ELSE LET steps  == GenerationSteps(save_dir)
             done   == WritesDone(steps, fail_at)
             failed == FirstFailure(steps, fail_at) # 0
         IN  \* _write_manifest_file sets the path before it opens the file
             [ret |-> ~failed, wrote |-> TRUE,
              paths |-> {done[i].path : i \in 1..Len(done)},
              last_yml_path |-> steps[1].path,
              disk |-> WriteAll(disk, done),
              unsaved_changes |-> (IF failed THEN unsaved_changes ELSE FALSE),
              gen_log |-> (IF failed THEN gen_log
                           ELSE Logged(gen_log,
                                       [form |-> FormState, dir |-> save_dir,
                                        files |-> WriteAll(<<>>, done),
                                        refs |-> <<installed_runtimes, installed_sdks>>,
                                        last_yml |-> last_yml_path]))]

\* the message boxes of a call of generate_files; open_dir is the answer
\* to "Open directory?"
GenerationDialogs(g, continue_anyway, open_dir) ==
    ValidationDialogs(continue_anyway)
    \o (IF ~g.wrote THEN <<>>
        ELSE IF ~g.ret THEN <<Dialog("Error", "ok")>>
        ELSE <<Dialog("Success", IF open_dir THEN "yes" ELSE "no")>>)

generate_files(save_dir, continue_anyway, fail_at, open_dir) ==
    LET g == GeneratedState(save_dir, continue_anyway, fail_at)
    IN  /\ last_yml_path' = g.last_yml_path
        /\ disk' = g.disk
        /\ unsaved_changes' = g.unsaved_changes
        /\ gen_log' = g.gen_log
        /\ last' = Outcome("generate_files", BoolText(g.ret),
                           GenerationDialogs(g, continue_anyway, open_dir),
                           ValidationErrors, ValidationWarnings, g.paths)
        /\ UNCHANGED <<formVars, installed_runtimes, installed_sdks, yaml, sessionVars,
                       after_calls, hashVars, runVars>>

(***************************************************************************)
(* export_manifest_only                                                    *)
(***************************************************************************)
ExportPath == <<"/home/u", <<"export.yml">>>>

\* filepath is NoPath when the file dialog is cancelled
export_manifest_only(filepath, continue_anyway) ==
    IF ~GenerationAllowed(continue_anyway) \/ filepath = NoPath
    THEN /\ last' = Outcome("export_manifest_only", "None",
                            ValidationDialogs(continue_anyway),
                            ValidationErrors, ValidationWarnings, {})
         /\ UNCHANGED <<formVars, unsaved_changes, last_yml_path,
                        installed_runtimes, installed_sdks, yaml, sessionVars, disk,
                        after_calls, gen_log,
                   hashVars, runVars>>
    ELSE /\ disk' = WriteFile(disk, filepath, ManifestContent)
         /\ last' = Outcome("export_manifest_only", "None",
                            ValidationDialogs(continue_anyway)
                            \o <<Dialog("Success", "ok")>>,
                            ValidationErrors, ValidationWarnings, {filepath})
         /\ UNCHANGED <<formVars, unsaved_changes, last_yml_path,
                        installed_runtimes, installed_sdks, yaml, sessionVars, after_calls,
                        gen_log,
                   hashVars, runVars>>

(***************************************************************************)
(* save_configuration and load_configuration.  The file holds the JSON     *)
(* document: json.dump and json.load keep the strings and booleans of the  *)
(* three mappings as they are.                                             *)
(***************************************************************************)
\* the `config` dictionary
Config ==
    [kind |-> "config",
     fields |-> [k \in FieldKeys |-> get_field_value(k)],
     vars |-> [source_path |-> source_path, icon_path |-> icon_file_path,
               source_type |-> source_type],
     perms |-> finish_args_vars]

\* what json.dump left of a file when the write failed
Truncated == [kind |-> "truncated"]

\* filepath is NoPath when the file dialog is cancelled.  io_error: "open"
\* when open(filepath, 'w') raises, "write" when json.dump raises, "none"
\* otherwise.  Nothing in the handler catches the exception: it leaves the
\* handler, and Tk's callback wrapper prints it to stderr
save_configuration(filepath, io_error) ==
    IF filepath = NoPath
    THEN /\ last' = Report("save_configuration", "None")
         /\ UNCHANGED <<formVars, unsaved_changes, last_yml_path,
                        installed_runtimes, installed_sdks, yaml, sessionVars, disk,
                        after_calls, gen_log,
                   hashVars, runVars>>
    ELSE IF io_error # "none"
    THEN /\ disk' = (IF io_error = "write"
                     THEN WriteFile(disk, filepath, Truncated) ELSE disk)
         /\ last' = Outcome("save_configuration", "raises", <<>>, <<>>, <<>>,
                            IF io_error = "write" THEN {filepath} ELSE {})
         /\ UNCHANGED <<formVars, unsaved_changes, last_yml_path,
                        installed_runtimes, installed_sdks, yaml, sessionVars,
                        after_calls, gen_log, hashVars, runVars>>
    ELSE /\ disk' = WriteFile(disk, filepath, Config)
         /\ unsaved_changes' = FALSE
         /\ last' = Outcome("save_configuration", "None", <<>>, <<>>, <<>>, {filepath})
         /\ UNCHANGED <<formVars, last_yml_path, installed_runtimes,
                        installed_sdks, yaml, sessionVars, after_calls, gen_log,
                   hashVars, runVars>>

\* w.delete(0, END); w.insert(0, v): ttk ignores both on a read-only
\* combobox; a text box and an entry take the saved value
LoadedWidget(k, content, v) ==
    IF k \in ReadonlyCombos THEN content ELSE v

\* filepath names a configuration file saved earlier; setting the
\* permission variables runs their write trace, _set_unsaved_changes; the
\* closing update_source_ui resets the source path just loaded.  io_error
\* is "open" when open(filepath, 'r') raises and "none" otherwise; json.load
\* raises on a file that is not a JSON document.  Either exception leaves
\* the handler before it has touched the form
load_configuration(filepath, io_error) ==
    IF \/ io_error # "none"
       \/ filepath \in DOMAIN disk /\ disk[filepath].kind = "truncated"
    THEN
    /\ last' = Report("load_configuration", "raises")
    /\ UNCHANGED <<formVars, unsaved_changes, last_yml_path,
                   installed_runtimes, installed_sdks, yaml, sessionVars, disk,
                   after_calls, gen_log, hashVars, runVars>>
    ELSE
    /\ filepath \in DOMAIN disk
    /\ disk[filepath].kind = "config"
    /\ LET config == disk[filepath]
       IN  /\ fields' = [k \in FieldKeys |-> LoadedWidget(k, fields[k], config.fields[k])]
           /\ icon_file_path' = config.vars.icon_path
           /\ source_type' = config.vars.source_type
           /\ finish_args_vars' = config.perms
    /\ update_source_ui
    /\ unsaved_changes' = TRUE
    /\ last' = Report("load_configuration", "None")
    /\ UNCHANGED <<combo_values, validation_errors, last_yml_path,
                   installed_runtimes, installed_sdks, yaml, sessionVars, disk, after_calls,
                   gen_log,
                   hashVars, runVars>>


(***************************************************************************)
(* Specification Spec: the form is filled in and validated.                *)
(***************************************************************************)
\* the texts put into the entries that validate_configuration reads
FormTexts ==
    [k \in {"appId", "appName", "summary", "runtimeVersion", "sdkVersion"} |->
        CASE k = "appId"   -> {<<>>, <<"a", ".", "b">>, <<"a", ".", "b", ".", "c">>}
          [] k = "appName" -> {<<" ">>, <<"M", "y", " ", "A", "p", "p">>}
          [] k = "summary" -> {<<>>, <<"A", " ", "t", "o", "o", "l">>}
          [] OTHER         -> {<<>>, <<"48">>}]

\* the answers of the directory dialog of select_source_directory
SourceDirAnswers == {"", SourceDir}

Next ==
    \/ \E k \in DOMAIN FormTexts : \E t \in FormTexts[k] : Paste(k, t)
    \/ \E k \in {"appId", "appName", "summary"} : FocusOut(k)
    \/ \E d \in SourceDirAnswers : select_source_directory(d)
    \/ autodetect_executable
    \/ \E clear_all \in BOOLEAN : new_project(clear_all)
    \/ \E continue_anyway \in BOOLEAN : validate_configuration(continue_anyway)

Spec == Init /\ [][Next]_vars


\* a required field holds nothing: its widget is blank or shows its placeholder
FieldIsMissing(k) ==
    \A i \in 1..Len(fields[k]) : fields[k][i] \in Whitespace
    \/ (k \in PlaceholderKeys /\ Strip(fields[k]) = placeholders[k])

\* how many entries of the list errs equal e
Occurrences(errs, e) == Cardinality({i \in 1..Len(errs) : errs[i] = e})

\* the entries of errs that report a missing item
MissingEntries(errs) ==
    {i \in 1..Len(errs) :
        \/ errs[i] = SourceRequiredError
        \/ \E j \in 1..Len(required) : errs[i] = MissingFieldError(required[j].label)}

\* the required items that are missing from the form
MissingItems ==
    {required[j].label : j \in {n \in 1..Len(required) : FieldIsMissing(required[n].field)}}
    \cup (IF source_path = "" THEN {"Source"} ELSE {})

\* C1: when validate_configuration has run on the form, it returned False
\* with a non-empty error list if a required field is blank (or shows its
\* placeholder) or the source location is empty; its error list holds
\* exactly one entry for each missing item and no entry for an item that is
\* not missing.
C1_MissingRequiredFields ==
    last.op = "validate_configuration" =>
        /\ MissingItems # {} => last.ret = "False" /\ last.errors # <<>>
        /\ \A j \in 1..Len(required) :
              Occurrences(last.errors, MissingFieldError(required[j].label))
                = (IF FieldIsMissing(required[j].field) THEN 1 ELSE 0)
        /\ Occurrences(last.errors, SourceRequiredError)
                = (IF source_path = "" THEN 1 ELSE 0)
        /\ Cardinality(MissingEntries(last.errors)) = Cardinality(MissingItems)

\* validation has run on a form whose summary shows its placeholder and
\* whose SDK version is blank, with the source chosen
C1_Witness ==
    /\ last.op = "validate_configuration"
    /\ fields["summary"] = placeholders["summary"]
    /\ fields["sdkVersion"] = <<>>
    /\ fields["runtimeVersion"] # <<>>
    /\ source_path # ""
    /\ Len(last.errors) >= 2

(***************************************************************************)
(* Specification SpecWrite: the form is filled in, and files are generated *)
(* and exported.                                                           *)
(***************************************************************************)
WriteTexts ==
    [k \in {"appId", "appName", "summary"} |->
        CASE k = "appId"   -> {<<>>, <<"a", ".", "b">>, <<"a", ".", "b", ".", "c">>}
          [] k = "appName" -> {<<"M", "y", " ", "A", "p", "p">>}
          [] OTHER         -> {<<"A", " ", "t", "o", "o", "l">>}]

\* the runtimes picked in the drop-down list
RuntimeChoices == {"org.gnome.Platform"}

\* the steps of generate_files at which the file system fails; 0: none
FailPoints == {0, 1, 5}

\* the answers of the directory dialog of generate_files
SaveDirAnswers == SaveDirs \cup {""}

\* the answers of the file dialog of export_manifest_only
ExportAnswers == {NoPath, ExportPath}

NextWrite ==
    \/ \E k \in DOMAIN WriteTexts : \E t \in WriteTexts[k] : Paste(k, t)
    \/ \E v \in RuntimeChoices : SelectCombo("runtime", v)
    \/ \E d \in SourceDirAnswers : select_source_directory(d)
    \/ autodetect_executable
    \/ \E d \in SaveDirAnswers, continue_anyway \in BOOLEAN,
          fail_at \in FailPoints, open_dir \in BOOLEAN :
            generate_files(d, continue_anyway, fail_at, open_dir)
    \/ \E p \in ExportAnswers, continue_anyway \in BOOLEAN :
            export_manifest_only(p, continue_anyway)

SpecWrite == Init /\ [][NextWrite]_vars

\* validate_configuration would find nothing wrong with the form
FormIsValid ==
    /\ MissingItems = {}
    /\ MatchesAppIdPattern(Strip(fields["appId"]))

\* C2: a step of generate_files or export_manifest_only that writes a file
\* is taken only from a form for which validate_configuration returns True:
\* a form without validation errors, and, when there are warnings, with
\* the user's "yes" to the warnings dialog.
C2_NoWriteUnlessValidated ==
    [][ (/\ last'.op \in {"generate_files", "export_manifest_only"}
         /\ (disk' # disk \/ last'.written # {} \/ last_yml_path' # last_yml_path))
        => /\ FormIsValid
           /\ ValidationErrors = <<>>
           /\ ValidationWarnings # <<>> =>
                \E i \in 1..Len(last'.dialogs) :
                    last'.dialogs[i] = Dialog("Validation Warnings", "yes") ]_vars

\* export_manifest_only was refused on a form with a validation error, after
\* an earlier generation had written its files
C2_Witness ==
    /\ last.op = "export_manifest_only"
    /\ last.errors # <<>>
    /\ last.written = {}
    /\ PathIn("/home/u/out", <<"README.md">>) \in DOMAIN disk

(***************************************************************************)
(* Specification SpecId: the identifier is typed key by key and validated. *)
(***************************************************************************)
\* the keys typed into the App ID entry
IdAlphabet == {"a", "Z", "1", "_", ".", " "}

NextId ==
    \/ \E c \in IdAlphabet :
          /\ Len(on_focus_in("appId", fields["appId"])) < MaxIdLen
          /\ KeyPress("appId", c)
    \/ BackSpace("appId")
    \/ FocusOut("appId")
    \/ \E continue_anyway \in BOOLEAN : validate_configuration(continue_anyway)

SpecId == Init /\ [][NextId]_vars

\* the identifier validate_configuration reads, and its dot-separated segments
Identifier == get_field_value("appId")
Segments(id) == Split(id, ".")

\* a segment that starts with a letter and goes on with letters, digits and
\* underscores
ValidSegment(seg) ==
    /\ seg # <<>>
    /\ seg[1] \in Letter
    /\ \A i \in 1..Len(seg) : seg[i] \in Letter \cup Digit \cup {"_"}

\* C3 as stated: after validate_configuration on any identifier with fewer
\* than three dot-separated segments, the result is False and the error list
\* contains the reverse-DNS error.
C3_AnyShortIdentifier ==
    (last.op = "validate_configuration" /\ Len(Segments(Identifier)) < 3)
        => /\ last.ret = "False"
           /\ Occurrences(last.errors, ReverseDnsError) >= 1

\* C3, amended: after validate_configuration on a non-empty identifier with
\* fewer than three dot-separated segments, the result is False and the
\* error list contains the reverse-DNS error exactly once; on an empty
\* identifier the result is False and the list holds the missing-field error
\* for the App ID and no reverse-DNS error.
C3_ShortIdentifierRejected ==
    (last.op = "validate_configuration" /\ Len(Segments(Identifier)) < 3)
        => /\ last.ret = "False"
           /\ Occurrences(last.errors, ReverseDnsError)
                = (IF Identifier # <<>> THEN 1 ELSE 0)
           /\ Occurrences(last.errors, MissingFieldError("App ID"))
                = (IF Identifier # <<>> THEN 0 ELSE 1)

\* validation has run on the two-segment identifier a.a
C3_Witness ==
    /\ last.op = "validate_configuration"
    /\ Identifier = <<"a", ".", "a">>
    /\ Occurrences(last.errors, ReverseDnsError) = 1

\* the identifier holds an uppercase letter
HasUppercase(id) == \E i \in 1..Len(id) : id[i] \in Upper

\* C4 as stated: after validate_configuration on an identifier of three or
\* more valid segments, the error list holds no reverse-DNS error whatever
\* the letter case; the warning list is empty for an all-lowercase
\* identifier and holds exactly one warning for an identifier with an
\* uppercase letter.
C4_CaseWarning ==
    (/\ last.op = "validate_configuration"
     /\ Len(Segments(Identifier)) >= 3
     /\ \A i \in 1..Len(Segments(Identifier)) : ValidSegment(Segments(Identifier)[i]))
        => /\ Occurrences(last.errors, ReverseDnsError) = 0
           /\ ~HasUppercase(Identifier) => last.warnings = <<>>
           /\ HasUppercase(Identifier) => Len(last.warnings) = 1

(***************************************************************************)
(* Specification SpecConfig: the form is changed, saved and loaded.        *)
(***************************************************************************)
\* the answers of the file dialogs of save_configuration and
\* load_configuration
ConfigAnswers == {NoPath, ConfigPath}

\* the permission checkboxes clicked
ToggledPerms == {"home"}

\* the application names typed
NameTexts == {<<"A", "p", "p">>}

NextConfig ==
    \/ \E v \in RuntimeChoices : SelectCombo("runtime", v)
    \/ \E t \in NameTexts : Paste("appName", t)
    \/ \E k \in ToggledPerms : TogglePermission(k)
    \/ \E t \in {"directory", "archive"} : SelectSourceType(t)
    \/ select_source_directory(SourceDir)
    \/ autodetect_executable
    \/ select_icon_file(IconFile)
    \/ \E p \in ConfigAnswers : save_configuration(p, "none")
    \/ load_configuration(ConfigPath, "none")

SpecConfig == Init /\ [][NextConfig]_vars

\* the configuration file written by the last save_configuration: the
\* field values, variables and toggles at the time of the save
Saved == disk[ConfigPath]

\* C5 as stated: right after load_configuration has read the file written
\* by save_configuration, every field value, the read-only selections
\* included, and every permission toggle equals its value at the time of
\* the save, whatever the form held before the load.
C5_FieldsRoundTrip ==
    (last.op = "load_configuration" /\ ConfigPath \in DOMAIN disk)
        => /\ \A k \in FieldKeys : get_field_value(k) = Saved.fields[k]
           /\ \A k \in PermKeys : finish_args_vars[k] = Saved.perms[k]

\* C6 as stated: right after load_configuration has read the file written
\* by save_configuration, the source path, the icon path and the source
\* type equal their values at the time of the save.
C6_VariablesRoundTrip ==
    (last.op = "load_configuration" /\ ConfigPath \in DOMAIN disk)
        => /\ source_path = Saved.vars.source_path
           /\ icon_file_path = Saved.vars.icon_path
           /\ source_type = Saved.vars.source_type

(***************************************************************************)
(* Specification SpecArgs: the permission checkboxes are clicked, the      *)
(* custom permissions are typed key by key, and _generate_finish_args is   *)
(* called on the form.                                                     *)
(***************************************************************************)
\* the call self._generate_finish_args() of generate_files and
\* export_manifest_only, on its own
_generate_finish_args ==
    /\ last' = Outcome("_generate_finish_args",
                       generate_finish_args(finish_args_vars,
                                            get_field_value("customPerms")),
                       <<>>, <<>>, <<>>, {})
    /\ UNCHANGED <<formVars, unsaved_changes, last_yml_path, installed_runtimes,
                   installed_sdks, yaml, sessionVars, disk, after_calls, gen_log,
                   hashVars, runVars>>

\* the keys typed into the custom permissions box: a blank, a line break
\* and two flags
CustomAlphabet == {" ", "\n", "--socket=fallback-x11", "--talk-name=org.a"}

\* the permission checkboxes clicked
ArgsToggles == {"x11", "wayland", "network", "home", "dri", "host"}

NextArgs ==
    \/ \E c \in CustomAlphabet :
          /\ Len(fields["customPerms"]) < MaxCustomLen
          /\ KeyPress("customPerms", c)
    \/ BackSpace("customPerms")
    \/ \E k \in ArgsToggles : TogglePermission(k)
    \/ _generate_finish_args

SpecArgs == Init /\ [][NextArgs]_vars

\* the one-element list of a flag when its toggle is set
FlagIf(toggle, flag) == IF finish_args_vars[toggle] THEN << <<flag>> >> ELSE <<>>

\* the lines of the custom permissions box that hold more than blanks, each
\* without the blanks around it, in the order typed
TypedCustomLines ==
    LET lines == Split(fields["customPerms"], "\n")
        kept  == SelectSeq(lines, LAMBDA l : \E i \in 1..Len(l) : l[i] \notin Whitespace)
    IN  [i \in 1..Len(kept) |-> Strip(kept[i])]

\* the part of the list that _generate_finish_args builds from the toggles
FixedPart ==
    << <<"--share=ipc">> >>
    \o FlagIf("x11", "--socket=x11")
    \o FlagIf("wayland", "--socket=wayland")
    \o FlagIf("network", "--share=network")
    \o FlagIf("home", "--filesystem=home")
    \o FlagIf("dri", "--device=dri")
    \o (IF ~finish_args_vars["x11"] /\ ~finish_args_vars["wayland"]
        THEN << <<"--socket=fallback-x11">> >> ELSE <<>>)

\* C7: the list _generate_finish_args returns is the IPC flag, then the
\* flags of X11, Wayland, network, home and GPU in that order, each present
\* exactly when its toggle is set, then the fallback X11 flag when neither
\* display toggle is set, then the non-blank custom lines, trimmed, in the
\* order typed.
C7_FinishArgsOrder ==
    last.op = "_generate_finish_args" => last.ret = FixedPart \o TypedCustomLines

\* the list was built with both display toggles cleared, the home toggle
\* set and two custom lines typed
C7_Witness ==
    /\ last.op = "_generate_finish_args"
    /\ ~finish_args_vars["x11"] /\ ~finish_args_vars["wayland"]
    /\ finish_args_vars["home"]
    /\ Len(TypedCustomLines) = 2
    /\ Len(last.ret) = 7

\* neither display checkbox is set
NoDisplayToggle == ~finish_args_vars["x11"] /\ ~finish_args_vars["wayland"]

\* C8 as stated: the list _generate_finish_args returns contains exactly
\* one fallback display flag when neither display toggle is set and none
\* when at least one is set.
C8_OneFallbackInList ==
    last.op = "_generate_finish_args" =>
        Occurrences(last.ret, FallbackFlag) = (IF NoDisplayToggle THEN 1 ELSE 0)

\* C8, amended: the part of the list ahead of the custom lines contains
\* exactly one fallback display flag when neither display toggle is set and
\* none when at least one is set; the whole list contains, besides, one
\* fallback flag for every custom line that is that flag.
C8_OneFallbackBeforeCustom ==
    last.op = "_generate_finish_args" =>
        LET n == Len(last.ret) - Len(TypedCustomLines)
        IN  /\ n >= 1
            /\ Occurrences(SubSeq(last.ret, 1, n), FallbackFlag)
                 = (IF NoDisplayToggle THEN 1 ELSE 0)
            /\ Occurrences(last.ret, FallbackFlag)
                 = (IF NoDisplayToggle THEN 1 ELSE 0)
                   + Occurrences(TypedCustomLines, FallbackFlag)

\* the list was built with neither display toggle set and with the fallback
\* flag typed as a custom line
C8_Witness ==
    /\ last.op = "_generate_finish_args"
    /\ NoDisplayToggle
    /\ Occurrences(TypedCustomLines, FallbackFlag) = 1
    /\ Occurrences(last.ret, FallbackFlag) = 2

(***************************************************************************)
(* Specification SpecGen: a valid form is generated again and again, with  *)
(* the installed references refreshed in between.                          *)
(***************************************************************************)
GenTexts ==
    [k \in {"appId", "appName", "summary"} |->
        CASE k = "appId"   -> {<<"a", ".", "b", ".", "c">>}
          [] k = "appName" -> {<<"M", "y", " ", "A", "p", "p">>}
          [] OTHER         -> {<<"A", " ", "t", "o", "o", "l">>}]

\* the steps of generate_files at which the file system fails; 0: none
GenFailPoints == {0, 5}

NextGen ==
    \/ \E k \in DOMAIN GenTexts : \E t \in GenTexts[k] : Paste(k, t)
    \/ \E found \in DetectOutcomes : refresh_runtime_list(found)
    \/ \E k \in ToggledPerms : TogglePermission(k)
    \/ \E d \in SourceDirAnswers : select_source_directory(d)
    \/ autodetect_executable
    \/ \E d \in SaveDirAnswers, fail_at \in GenFailPoints :
            generate_files(d, TRUE, fail_at, FALSE)

SpecGen == Init /\ [][NextGen]_vars

\* the two runs of generate_files that succeeded last
EarlierRun == gen_log[1]
LaterRun == gen_log[2]

ManifestKeys ==
    {"app_id", "runtime", "runtime_version", "sdk", "sdk_version", "command",
     "finish_args", "modules"}

\* C13 as stated: whenever generate_files reports success, the manifest it
\* wrote is a document with the identifier, runtime, runtime version, SDK,
\* SDK version, command, finish-arguments list and module list of the form.
C13_ManifestCarriesForm ==
    (last.op = "generate_files" /\ last.ret = "True") =>
        /\ disk[last_yml_path].kind = "yaml"
        /\ LET doc == disk[last_yml_path].doc
           IN  /\ ManifestKeys \subseteq DOMAIN doc
               /\ doc.app_id = Data["appId"]
               /\ doc.runtime = Data["runtime"]
               /\ doc.runtime_version = Data["runtimeVersion"]
               /\ doc.sdk = Data["sdk"]
               /\ doc.sdk_version = Data["sdkVersion"]
               /\ doc.command = SanitizedAppName(Data["appName"])
               /\ doc.finish_args =
                    generate_finish_args(finish_args_vars,
                                         get_field_value("customPerms"))
               /\ doc.modules[Len(doc.modules)] =
                    generate_main_module(Data, SanitizedAppName(Data["appName"]))

(***************************************************************************)
(* Specification SpecDeps: the dependencies text is replaced, and          *)
(* _generate_manifest_content is called on the form.                       *)
(***************************************************************************)
\* the call self._generate_manifest_content(...) of generate_files and
\* export_manifest_only, on its own, with the arguments they compute
_generate_manifest_content ==
    /\ last' = Outcome("_generate_manifest_content", ManifestContent,
                       <<>>, <<>>, <<>>, {})
    /\ UNCHANGED <<formVars, unsaved_changes, last_yml_path, installed_runtimes,
                   installed_sdks, yaml, sessionVars, disk, after_calls, gen_log,
                   hashVars, runVars>>

\* the lines a dependencies text is made of
DepLineSet ==
    {<<l>> : l \in ItemLines \cup PairLines \cup CommentLines \cup OpenLines}
    \cup {<<>>}

\* the texts put into the dependencies box: up to MaxDepLines lines
DepTexts == {Join(ls, "\n") : ls \in SeqsUpTo(DepLineSet, MaxDepLines)}

NextDeps ==
    \/ \E t \in DepTexts : Paste("dependencies", t)
    \/ \E t \in NameTexts : Paste("appName", t)
    \/ SelectCombo("buildSystem", "meson")
    \/ _generate_manifest_content

SpecDeps == Init /\ [][NextDeps]_vars

\* the lines of the dependencies box that are neither blank nor a comment
DepContentLines ==
    SelectSeq(Split(fields["dependencies"], "\n"),
              LAMBDA l : l # <<>> /\ l[1] \notin CommentLines)

\* the dependencies text is a YAML block sequence: it has content, and
\* every line of content is a sequence entry
DepsAreYamlList ==
    /\ DepContentLines # <<>>
    /\ \A i \in 1..Len(DepContentLines) : DepContentLines[i][1] \in ItemLines

\* the modules a dependencies text stands for
ParsedDeps ==
    IF DepsAreYamlList
    THEN [i \in 1..Len(DepContentLines) |-> ItemOf(DepContentLines[i][1])]
    ELSE <<>>

\* the main module of the form
MainModule == generate_main_module(Data, SanitizedAppName(Data["appName"]))

\* C10: in a manifest that _generate_manifest_content produced, the main
\* module of the form occurs exactly once and is the last module; the
\* modules before it are the entries of the dependencies text when that
\* text is a YAML list, and there are none when the text is empty, cannot
\* be parsed or is not a list.
C10_MainModuleLast ==
    (last.op = "_generate_manifest_content" /\ last.ret.kind = "yaml") =>
        LET modules == last.ret.doc.modules
            n       == Len(modules)
        IN  /\ n >= 1
            /\ modules[n] = MainModule
            /\ Occurrences(modules, MainModule) = 1
            /\ SubSeq(modules, 1, n - 1) = ParsedDeps
            /\ ~DepsAreYamlList => n = 1

\* a manifest was produced from a dependencies text of two entries
C10_Witness ==
    /\ last.op = "_generate_manifest_content"
    /\ last.ret.kind = "yaml"
    /\ Len(ParsedDeps) = 2
    /\ Len(last.ret.doc.modules) = 3

(***************************************************************************)
(* Specification SpecMain: the application name, the executable, the build *)
(* system and the source type are changed, and the manifest is built.      *)
(***************************************************************************)
\* the texts put into the application name and executable entries
MainTexts ==
    [k \in {"appName", "executable"} |->
        IF k = "appName"
        THEN {<<"M", "y", " ", "A", "p", "p">>, <<"!", "?">>, <<"a", "_", "1", "-", "+">>}
        ELSE {<<>>, <<"main", ".py">>, <<"run", ".sh">>, <<"app", ".py", ".bak">>}]

NextMain ==
    \/ \E k \in DOMAIN MainTexts : \E t \in MainTexts[k] : Paste(k, t)
    \/ \E v \in {"simple", "meson"} : SelectCombo("buildSystem", v)
    \/ \E t \in {"directory", "archive"} : SelectSourceType(t)
    \/ _generate_manifest_content

SpecMain == Init /\ [][NextMain]_vars

\* the application name with every blank turned into a dash and every
\* character other than a letter, a digit, "_" and "-" left out; "app" when
\* nothing is left
ExpectedCommand ==
    LET name   == get_field_value("appName")
        dashed == [i \in 1..Len(name) |-> IF name[i] = " " THEN "-" ELSE name[i]]
        kept   == SelectSeq(dashed, LAMBDA c : c \in Letter \cup Digit \cup {"_", "-"})
    IN  IF kept = <<>> THEN <<"a", "p", "p">> ELSE kept

\* the executable's name ends in ".py"
ExecutableIsScript ==
    LET exe == get_field_value("executable")
    IN  exe # <<>> /\ exe[Len(exe)] = ".py"

\* the build commands are: create the install directory, copy the sources,
\* install a wrapper script that runs the interpreter on the executable
\* when it is a script and the executable itself otherwise
InstallCopyWrapper(commands) ==
    /\ Len(commands) = 3
    /\ commands[1].run = "install -d"
    /\ commands[1].dir = <<"/app/share/">> \o ExpectedCommand
    /\ commands[2].run = "cp -a"
    /\ commands[2].to = <<"/app/share/">> \o ExpectedCommand \o <<"/">>
    /\ commands[3].run = "install -Dm755 /dev/stdin"
    /\ commands[3].to = <<"/app/bin/">> \o ExpectedCommand
    /\ commands[3].script =
          <<IF ExecutableIsScript THEN "python3 " ELSE "exec ">>
          \o <<"/app/share/">> \o ExpectedCommand \o <<"/">>
          \o get_field_value("executable") \o <<" \"$@\"">>

\* the main module of the manifest last produced
ProducedMain == last.ret.doc.modules[Len(last.ret.doc.modules)]

\* C11 as stated: in every manifest produced with source type directory,
\* the main module carries the install, copy, wrapper command sequence,
\* the wrapper running the interpreter exactly when the executable ends in
\* ".py"; the manifest's command is the sanitized application name.
C11_DirectoryBuildCommands ==
    (last.op = "_generate_manifest_content" /\ last.ret.kind = "yaml") =>
        /\ last.ret.doc.command = ExpectedCommand
        /\ source_type = "directory" => InstallCopyWrapper(ProducedMain.build_commands)

\* C11, amended: in every manifest produced with source type directory and
\* build system "simple", the main module carries the install, copy,
\* wrapper command sequence, the wrapper running the interpreter exactly
\* when the executable ends in ".py"; with any other build system, or with
\* source type archive, the main module has no build commands; the
\* manifest's command is the sanitized application name in every case.
C11_SimpleDirectoryBuildCommands ==
    (last.op = "_generate_manifest_content" /\ last.ret.kind = "yaml") =>
        /\ last.ret.doc.command = ExpectedCommand
        /\ ProducedMain.name = ExpectedCommand
        /\ IF source_type = "directory" /\ get_field_value("buildSystem") = <<"simple">>
           THEN InstallCopyWrapper(ProducedMain.build_commands)
           ELSE ProducedMain.build_commands = <<>>

\* a manifest was produced for a directory source, build system "simple",
\* with an executable whose name holds ".py" but does not end in it
C11_Witness ==
    /\ last.op = "_generate_manifest_content"
    /\ last.ret.kind = "yaml"
    /\ source_type = "directory"
    /\ get_field_value("buildSystem") = <<"simple">>
    /\ get_field_value("executable") = <<"app", ".py", ".bak">>
    /\ ProducedMain.build_commands[3].script[1] = "exec "

(***************************************************************************)
(* Specification SpecArchive: an archive is selected, its hash is computed *)
(* in the background, and the manifest is exported.                        *)
(***************************************************************************)
\* the answers of the file dialog of select_source_archive
ArchiveAnswers == {"", SourceArchive}

NextArchive ==
    \/ \E k \in DOMAIN GenTexts : \E t \in GenTexts[k] : Paste(k, t)
    \/ \E v \in RuntimeChoices : SelectCombo("runtime", v)
    \/ SelectSourceType("archive")
    \/ \E f \in ArchiveAnswers : select_source_archive(f)
    \/ \E f \in ArchiveAnswers : calculate_hash_thread(f)
    \/ hash_callback
    \/ export_manifest_only(ExportPath, TRUE)

SpecArchive == Init /\ [][NextArchive]_vars

\* C12 as stated: whenever a manifest has been written for source type
\* archive, its main module has a single source entry, of type archive,
\* whose hash is the SHA-256 digest of the archive selected.
C12_ArchiveHashIsDigest ==
    (/\ last.op = "export_manifest_only"
     /\ last.written # {}
     /\ source_type = "archive"
     /\ disk[ExportPath].kind = "yaml") =>
        LET doc     == disk[ExportPath].doc
            sources == doc.modules[Len(doc.modules)].sources
        IN  /\ Len(sources) = 1
            /\ sources[1].type = "archive"
            /\ sources[1].sha256 = Sha256(source_path)

(***************************************************************************)
(* Specification SpecSource: the source type is switched, sources are      *)
(* selected, the form is cleared, and the configuration is validated.      *)
(***************************************************************************)
NextSource ==
    \/ \E k \in DOMAIN GenTexts : \E t \in GenTexts[k] : Paste(k, t)
    \/ \E v \in RuntimeChoices : SelectCombo("runtime", v)
    \/ \E t \in {"directory", "archive"} : SelectSourceType(t)
    \/ new_project(TRUE)
    \/ select_source_directory(SourceDir)
    \/ autodetect_executable
    \/ select_source_archive(SourceArchive)
    \/ calculate_hash_thread(SourceArchive)
    \/ hash_callback
    \/ validate_configuration(TRUE)

SpecSource == Init /\ [][NextSource]_vars

\* C14 as stated: whenever validate_configuration passes, the source path
\* names an existing directory when the source type is 'directory' and an
\* existing regular file when it is 'archive'.
C14_SourceMatchesType ==
    (last.op = "validate_configuration" /\ last.ret = "True") =>
        /\ source_type = "directory" => IsDir(source_path)
        /\ source_type = "archive" => IsFile(source_path)

(***************************************************************************)
(* The external process runner: _run_command_in_thread, its worker thread  *)
(* `task`, the child process, and the poller _process_output_queue.        *)
(***************************************************************************)
\* the exit codes of a child
ExitCodes == {0, 1}

\* what goes through the queue and into the log
Item(kind, src, n) == [kind |-> kind, src |-> src, n |-> n]
Line(child, n) == Item("line", child, n)
FatalLine(run) == Item("fatal", run, 0)
Sentinel(run) == Item("sentinel", run, 0)

\* the runs started so far, and the run the next call starts
Started == {w \in RunIds : tasks[w].pc # "idle"}
NewRun == Cardinality(Started) + 1

\* self.output_queue.put(item) by worker w
QueuePut(w, item) ==
    /\ output_queue' = Append(output_queue, item)
    /\ tasks' = [tasks EXCEPT
                    ![w].sentinels = @ + (IF item.kind = "sentinel" THEN 1 ELSE 0),
                    ![w].late_puts = @ + (IF tasks[w].sentinels > 0 THEN 1 ELSE 0),
                    ![w].pc = IF item.kind = "line" THEN "read"
                              ELSE IF item.kind = "fatal" THEN "sentinel"
                              ELSE "notify"]

\* what no step of a worker or of a child touches
BesidesRunner ==
    <<formVars, unsaved_changes, last_yml_path, installed_runtimes,
      installed_sdks, yaml, sessionVars, disk, after_calls, last, gen_log, hashVars>>

\* _run_command_in_thread(command, on_complete): the busy indicator is
\* started, the thread is started, the first poll is scheduled.  after is
\* the run whose completion callback makes the call, 0 for a click
_run_command_in_thread(kind, after) ==
    /\ progress_bar' = TRUE
    /\ tasks' = [tasks EXCEPT ![NewRun] = [IdleTask EXCEPT !.pc = "spawn",
                                                            !.kind = kind,
                                                            !.after = after]]
    /\ poll_timers' = poll_timers + 1

\* task: subprocess.Popen(...) and the assignment to self._running_process;
\* spawned is FALSE when Popen raises
task_spawn(w, spawned) ==
    /\ tasks[w].pc = "spawn"
    /\ IF spawned
       THEN /\ children' = [children EXCEPT ![w].state = "running"]
            /\ running_process' = w
            /\ tasks' = [tasks EXCEPT ![w].pc = "bind"]
       ELSE /\ tasks' = [tasks EXCEPT ![w].pc = "fatal"]
            /\ UNCHANGED <<children, running_process>>
    /\ UNCHANGED <<BesidesRunner, output_queue, output_text, progress_bar,
                   poll_timers, on_complete_calls, poller>>

\* task: iter(self._running_process.stdout.readline, '') reads the
\* attribute once; None has no stdout
task_bind(w) ==
    /\ tasks[w].pc = "bind"
    /\ tasks' = [tasks EXCEPT
                    ![w].pc = IF running_process = 0 THEN "fatal" ELSE "read",
                    ![w].reader = running_process]
    /\ UNCHANGED <<BesidesRunner, running_process, output_queue, children,
                   output_text, progress_bar, poll_timers, on_complete_calls,
                   poller>>

\* task: one readline() on the stream bound: a line the child wrote, '' when
\* the child has exited, ValueError when the stream was closed
task_readline(w) ==
    /\ tasks[w].pc = "read"
    /\ LET c == tasks[w].reader
       IN  \/ /\ children[c].closed
              /\ tasks' = [tasks EXCEPT ![w].pc = "fatal"]
              /\ UNCHANGED children
           \/ /\ ~children[c].closed
              /\ children[c].state = "running"
              /\ children[c].out < MaxLines
              /\ children' = [children EXCEPT ![c].out = @ + 1]
              /\ tasks' = [tasks EXCEPT ![w].pc = "put",
                                        ![w].line = children[c].out + 1]
           \/ /\ ~children[c].closed
              /\ children[c].state = "exited"
              /\ tasks' = [tasks EXCEPT ![w].pc = "close"]
              /\ UNCHANGED children
    /\ UNCHANGED <<BesidesRunner, running_process, output_queue, output_text,
                   progress_bar, poll_timers, on_complete_calls, poller>>

\* task: self.output_queue.put(line)
task_put_line(w) ==
    /\ tasks[w].pc = "put"
    /\ QueuePut(w, Line(tasks[w].reader, tasks[w].line))
    /\ UNCHANGED <<BesidesRunner, running_process, children, output_text,
                   progress_bar, poll_timers, on_complete_calls, poller>>

\* task: self._running_process.stdout.close()
task_close(w) ==
    /\ tasks[w].pc = "close"
    /\ IF running_process = 0
       THEN /\ tasks' = [tasks EXCEPT ![w].pc = "fatal"]
            /\ UNCHANGED children
       ELSE /\ children' = [children EXCEPT ![running_process].closed = TRUE]
            /\ tasks' = [tasks EXCEPT ![w].pc = "wait"]
    /\ UNCHANGED <<BesidesRunner, running_process, output_queue, output_text,
                   progress_bar, poll_timers, on_complete_calls, poller>>

\* task: self._running_process.wait() is called on what the attribute holds
task_wait(w) ==
    /\ tasks[w].pc = "wait"
    /\ tasks' = [tasks EXCEPT
                    ![w].pc = IF running_process = 0 THEN "fatal" ELSE "waiting",
                    ![w].reader = running_process]
    /\ UNCHANGED <<BesidesRunner, running_process, output_queue, children,
                   output_text, progress_bar, poll_timers, on_complete_calls,
                   poller>>

\* task: wait() returns the exit code of the child waited for
task_wait_returns(w) ==
    /\ tasks[w].pc = "waiting"
    /\ children[tasks[w].reader].state = "exited"
    /\ tasks' = [tasks EXCEPT ![w].pc = "sentinel",
                              ![w].rc = children[tasks[w].reader].code]
    /\ UNCHANGED <<BesidesRunner, running_process, output_queue, children,
                   output_text, progress_bar, poll_timers, on_complete_calls,
                   poller>>

\* task, except branch: self.output_queue.put("FATAL ERROR: ..."); the
\* callback will be given 1
task_put_fatal(w) ==
    /\ tasks[w].pc = "fatal"
    /\ output_queue' = Append(output_queue, FatalLine(w))
    /\ tasks' = [tasks EXCEPT
                    ![w].late_puts = @ + (IF tasks[w].sentinels > 0 THEN 1 ELSE 0),
                    ![w].pc = "sentinel", ![w].rc = 1]
    /\ UNCHANGED <<BesidesRunner, running_process, children, output_text,
                   progress_bar, poll_timers, on_complete_calls, poller>>

\* task, either branch: self.output_queue.put(None)
task_put_sentinel(w) ==
    /\ tasks[w].pc = "sentinel"
    /\ QueuePut(w, Sentinel(w))
    /\ UNCHANGED <<BesidesRunner, running_process, children, output_text,
                   progress_bar, poll_timers, on_complete_calls, poller>>

\* task, either branch: self.root.after(0, on_complete, rc)
task_notify(w) ==
    /\ tasks[w].pc = "notify"
    /\ on_complete_calls' =
            Append(on_complete_calls, [run |-> w, rc |-> tasks[w].rc])
    /\ tasks' = [tasks EXCEPT ![w].pc = "done", ![w].scheduled = @ + 1]
    /\ UNCHANGED <<BesidesRunner, running_process, output_queue, children,
                   output_text, progress_bar, poll_timers, poller>>

\* the child process c ends, with an exit code
child_exit(c, code) ==
    /\ children[c].state = "running"
    /\ children' = [children EXCEPT ![c].state = "exited", ![c].code = code]
    /\ UNCHANGED <<BesidesRunner, running_process, output_queue, tasks,
                   output_text, progress_bar, poll_timers, on_complete_calls,
                   poller>>

\* a poller that treats None as one more line: it goes on with the loop,
\* and leaves the indicator and the handle as they are
PollerDrainingPastSentinel ==
    /\ window = "open"
    /\ \/ poller = "idle" /\ poll_timers > 0
       \/ poller = "get"
    /\ LET timers == IF poller = "idle" THEN poll_timers - 1 ELSE poll_timers
       IN  IF output_queue = <<>>
           THEN /\ poller' = "idle"
                /\ poll_timers' = (IF running_process # 0 THEN timers + 1
                                   ELSE timers)
                /\ progress_bar' = (IF running_process # 0 THEN progress_bar
                                    ELSE FALSE)
                /\ UNCHANGED <<output_queue, output_text>>
           ELSE /\ output_queue' = Tail(output_queue)
                /\ poll_timers' = timers
                /\ poller' = "get"
                /\ output_text' = (IF Head(output_queue).kind = "sentinel"
                                   THEN output_text
                                   ELSE Append(output_text, Head(output_queue)))
                /\ UNCHANGED progress_bar
    /\ UNCHANGED <<BesidesRunner, running_process, tasks, children,
                   on_complete_calls>>

\* _process_output_queue: one output_queue.get_nowait(), the first of a
\* tick when a timer fires, and what the loop does with its result: a line
\* is appended to the log; on None the indicator is stopped, the handle is
\* cleared and the call returns; on Empty the call returns after it has
\* scheduled itself again or stopped the indicator
_process_output_queue ==
    /\ window = "open"
    /\ \/ poller = "idle" /\ poll_timers > 0
       \/ poller = "get"
    /\ LET timers == IF poller = "idle" THEN poll_timers - 1 ELSE poll_timers
       IN  IF output_queue = <<>>
           THEN /\ poller' = "idle"
                /\ poll_timers' = (IF running_process # 0 THEN timers + 1
                                   ELSE timers)
                /\ progress_bar' = (IF running_process # 0 THEN progress_bar
                                    ELSE FALSE)
                /\ UNCHANGED <<output_queue, output_text, running_process>>
           ELSE /\ output_queue' = Tail(output_queue)
                /\ poll_timers' = timers
                /\ IF Head(output_queue).kind = "sentinel"
                   THEN /\ poller' = "idle"
                        /\ progress_bar' = FALSE
                        /\ running_process' = 0
                        /\ UNCHANGED output_text
                   ELSE /\ poller' = "get"
                        /\ output_text' = Append(output_text, Head(output_queue))
                        /\ UNCHANGED <<progress_bar, running_process>>
    /\ UNCHANGED <<BesidesRunner, tasks, children, on_complete_calls>>

\* the first lines of a run in the log, and the closing line of a callback
CmdLine(kind) == Item("cmd", 0, IF kind = "build" THEN 1 ELSE 0)
StatusLine(kind, rc) == Item(kind, 0, rc)

\* the command line of proceed_with_build for the manifest at yml_path
BuildCommand(yml_path) ==
    <<"flatpak-builder", "--user", "--install", "--force-clean",
      PathIn(yml_path[1], <<"build-dir">>), yml_path>>

\* proceed_with_build: the command is kept for copying, the log is cleared, the command is shown, the build
\* is started
proceed_with_build(after, yml_path) ==
    /\ NewRun \in RunIds
    /\ last_build_command' = BuildCommand(yml_path)
    /\ output_text' = <<CmdLine("build")>>
    /\ _run_command_in_thread("build", after)

\* start_build_process from the sdk check on, g being what the call of
\* generate_files left, if there was one
ValidateSdkAndBuild(g, builder_found, generates, continue_anyway, open_dir, sdk_check, install, remotes) ==
    LET asks     == g.ret /\ sdk_check = "missing"
        installs == asks /\ install
        builds   == g.ret /\ sdk_check = "installed"
        dialogs  ==
            (IF ~builder_found THEN <<Dialog("Error", "ok")>> ELSE <<>>)
            \o (IF generates
                THEN GenerationDialogs(g, continue_anyway, open_dir) ELSE <<>>)
            \o (IF g.ret /\ sdk_check = "error" THEN <<Dialog("Error", "ok")>>
                ELSE <<>>)
            \o (IF asks THEN <<Dialog("SDK Not Found",
                                      IF install THEN "yes" ELSE "no")>>
                ELSE <<>>)
            \o (IF asks /\ ~install THEN <<Dialog("Build Canceled", "ok")>>
                ELSE <<>>)
            \o (IF installs /\ remotes = "none"
                THEN <<Dialog("Prerequisite Missing", "ok")>> ELSE <<>>)
            \o (IF installs /\ remotes = "error" THEN <<Dialog("Error", "ok")>>
                ELSE <<>>)
    IN  /\ window = "open"
        /\ poller = "idle"
        /\ last_yml_path' = g.last_yml_path
        /\ disk' = g.disk
        /\ unsaved_changes' = g.unsaved_changes
        /\ gen_log' = g.gen_log
        /\ last' = Outcome("start_build_process", "None", dialogs,
                           IF generates THEN ValidationErrors ELSE <<>>,
                           IF generates THEN ValidationWarnings ELSE <<>>,
                           g.paths)
        /\ IF builds
           THEN proceed_with_build(0, g.last_yml_path)
           ELSE IF installs /\ remotes = "flathub"
           THEN \* install_flatpak_sdk starts the installation
                /\ NewRun \in RunIds
                /\ output_text' = <<CmdLine("install")>>
                /\ _run_command_in_thread("install", 0)
                /\ UNCHANGED last_build_command
           ELSE IF installs
           THEN \* install_flatpak_sdk found no flathub remote
                /\ Len(output_text) < MaxLog
                /\ output_text' = Append(output_text, StatusLine("error", 1))
                /\ UNCHANGED <<tasks, progress_bar, poll_timers,
                               last_build_command>>
           ELSE UNCHANGED <<output_text, tasks, progress_bar, poll_timers,
                            last_build_command>>
        /\ UNCHANGED <<formVars, installed_runtimes, installed_sdks, yaml,
                       temp_files, window, depsVars,
                       after_calls, hashVars, running_process, output_queue,
                       children, on_complete_calls, poller>>

\* a Build & Install that goes on without having looked for flatpak-builder
BuildWithoutBuilderCheck(builder_found, save_dir, continue_anyway, fail_at, open_dir, sdk_check, install, remotes) ==
    ValidateSdkAndBuild(
        IF last_yml_path = NoPath \/ last_yml_path \notin DOMAIN disk
        THEN GeneratedState(save_dir, continue_anyway, fail_at)
        ELSE [ret |-> TRUE, wrote |-> FALSE, paths |-> {},
              last_yml_path |-> last_yml_path, disk |-> disk,
              unsaved_changes |-> unsaved_changes, gen_log |-> gen_log],
        TRUE, last_yml_path = NoPath \/ last_yml_path \notin DOMAIN disk,
        continue_anyway, open_dir, sdk_check, install, remotes)

\* a Build & Install that generates again whenever the form has unsaved
\* changes
RegeneratesWhenUnsaved ==
    last_yml_path = NoPath \/ last_yml_path \notin DOMAIN disk \/ unsaved_changes

\* whether start_build_process calls generate_files
NeedsGeneration == last_yml_path = NoPath \/ last_yml_path \notin DOMAIN disk

\* the Build & Install button.  builder_found: _find_executable found
\* flatpak-builder; save_dir, continue_anyway, fail_at, open_dir: the
\* inputs of generate_files when it is called; sdk_check: what `flatpak
\* list` showed ("installed", "missing") or that it failed ("error");
\* install: the answer to "SDK Not Found"; remotes: what `flatpak remotes`
\* showed ("flathub", "none") or that it failed ("error")
start_build_process(builder_found, save_dir, continue_anyway, fail_at, open_dir, sdk_check, install, remotes) ==
    ValidateSdkAndBuild(
        IF builder_found /\ NeedsGeneration
        THEN GeneratedState(save_dir, continue_anyway, fail_at)
        ELSE [ret |-> builder_found, wrote |-> FALSE, paths |-> {},
              last_yml_path |-> last_yml_path, disk |-> disk,
              unsaved_changes |-> unsaved_changes, gen_log |-> gen_log],
        builder_found, builder_found /\ NeedsGeneration, continue_anyway,
        open_dir, sdk_check, install, remotes)

\* the event loop runs the oldest on_complete call: on_install_done for an
\* installation, which goes on to proceed_with_build when the exit code is
\* 0, and _on_build_and_install_complete for a build
on_complete ==
    /\ window = "open"
    /\ poller = "idle"
    /\ on_complete_calls # <<>>
    /\ LET call == Head(on_complete_calls)
           kind == tasks[call.run].kind
       IN  /\ on_complete_calls' = Tail(on_complete_calls)
           /\ last' = Outcome(IF kind = "install" THEN "on_install_done"
                              ELSE "_on_build_and_install_complete",
                              "None",
                              IF call.rc = 0 /\ kind = "install" THEN <<>>
                              ELSE IF call.rc = 0
                              THEN <<Dialog("Success", "ok")>>
                              ELSE IF kind = "install"
                              THEN <<Dialog("Installation Failed", "ok")>>
                              ELSE <<Dialog("Failed", "ok")>>,
                              <<>>, <<>>, {})
           /\ IF kind = "install" /\ call.rc = 0
              THEN proceed_with_build(call.run, last_yml_path)
              ELSE /\ output_text' =
                        Append(output_text,
                               StatusLine(IF call.rc = 0 THEN "success"
                                          ELSE "error", call.rc))
                   /\ UNCHANGED <<tasks, progress_bar, poll_timers,
                                  last_build_command>>
    /\ UNCHANGED <<formVars, unsaved_changes, last_yml_path, installed_runtimes,
                   installed_sdks, yaml, temp_files, window, depsVars, disk,
                   after_calls, gen_log, hashVars, running_process,
                   output_queue, children, poller>>

(***************************************************************************)
(* Specification SpecRun: from a form that was filled and generated, Build *)
(* & Install is clicked while workers, children and the poller run.        *)
(***************************************************************************)
BuiltDir == "/home/u/out"

BuiltFields ==
    [k \in FieldKeys |->
        CASE k = "appId"          -> <<"a", ".", "b", ".", "c">>
          [] k = "appName"        -> <<"M", "y", " ", "A", "p", "p">>
          [] k = "summary"        -> <<"A", " ", "t", "o", "o", "l">>
          [] k = "author"         -> placeholders[k]
          [] k = "category"       -> <<Categories[1]>>
          [] k = "buildSystem"    -> <<BuildSystems[1]>>
          [] k = "runtime"        -> <<"org.freedesktop.Platform">>
          [] k = "sdk"            -> <<"org.freedesktop.Sdk">>
          [] k = "runtimeVersion" -> <<"23.08">>
          [] k = "sdkVersion"     -> <<"23.08">>
          [] k = "executable"     -> <<"main", ".py">>
          [] OTHER                -> <<>>]

\* the state after the form was filled, the project directory selected
\* and generate_files run once
InitBuilt ==
    /\ installed_runtimes = <<>>
    /\ installed_sdks = <<>>
    /\ fields = BuiltFields
    /\ combo_values =
        [k \in {"runtime", "sdk", "runtimeVersion", "sdkVersion"} |->
            CASE k = "runtime" -> get_available_runtimes(<<>>)
              [] k = "sdk"     -> get_available_sdks(<<>>)
              [] OTHER         -> <<"23.08", "22.08">>]
    /\ validation_errors = [k \in ErrorLabelKeys |-> ""]
    /\ finish_args_vars = PermDefaults
    /\ source_path = SourceDir
    /\ source_file_sha256 = "Not calculated"
    /\ icon_file_path = ""
    /\ source_type = "directory"
    /\ selector_command = "select_source_directory"
    /\ unsaved_changes = FALSE
    /\ yaml = TRUE
    /\ after_calls = {}
    /\ last_yml_path = PathIn(BuiltDir, Data["appId"] \o <<".yml">>)
    /\ disk = WriteAll(<<>>, WritesDone(GenerationSteps(BuiltDir), 0))
    /\ gen_log = <<[form |-> FormState, dir |-> BuiltDir, files |-> disk,
                    refs |-> <<installed_runtimes, installed_sdks>>,
                    last_yml |-> NoPath]>>
    /\ last = Outcome("generate_files", "True",
                      <<Dialog("Validation Passed", "ok"),
                        Dialog("Success", "no")>>,
                      <<>>, <<>>, DOMAIN disk)
    /\ hash_threads = {}
    /\ sha_calls = <<>>
    /\ running_process = 0
    /\ output_queue = <<>>
    /\ tasks = [w \in RunIds |-> IdleTask]
    /\ children = [c \in RunIds |-> NoChild]
    /\ output_text = <<>>
    /\ progress_bar = FALSE
    /\ poll_timers = 0
    /\ on_complete_calls = <<>>
    /\ poller = "idle"
    /\ last_build_command = <<>>
    /\ temp_files = {}
    /\ window = "open"
    /\ stdlib_names = TRUE
    /\ deps_threads = <<>>
    /\ deps_calls = <<>>

\* the steps of the worker threads and of the children
WorkerStep(w) ==
    \/ \E spawned \in BOOLEAN : task_spawn(w, spawned)
    \/ task_bind(w)
    \/ task_readline(w)
    \/ task_put_line(w)
    \/ task_close(w)
    \/ task_wait(w)
    \/ task_wait_returns(w)
    \/ task_put_fatal(w)
    \/ task_put_sentinel(w)
    \/ task_notify(w)

\* what `flatpak list` shows at the clicks of these runs: the SDK is
\* installed, and there are two clicks
RunClicks == IF NewRun <= 2 THEN {"installed"} ELSE {}

\* clicks that find the SDK installed, children that succeed
NextRunner ==
    \/ \E sdk_check \in RunClicks :
            start_build_process(TRUE, BuiltDir, TRUE, 0, FALSE, sdk_check,
                                TRUE, "flathub")
    \/ on_complete
    \/ \E w \in RunIds : WorkerStep(w)
    \/ \E c \in RunIds : child_exit(c, 0)
    \/ _process_output_queue

SpecRun == InitBuilt /\ [][NextRunner]_vars

\* the sentinel of a started run has not been taken from the queue
SentinelUnconsumed(w) ==
    /\ tasks[w].pc # "idle"
    /\ \/ tasks[w].sentinels = 0
       \/ \E i \in 1..Len(output_queue) : output_queue[i] = Sentinel(w)

\* the children that were spawned and have not exited
Active == {c \in RunIds : children[c].state = "running"}

\* C15 as stated: at most one child process is active at any time.
C15_OneChildAtATime == Cardinality(Active) <= 1

\* C16 as stated: a worker schedules its completion callback once, at its
\* end; the callback is given the exit code of the run's child when that
\* child was spawned, and then the child has exited, or 1 when Popen raised.
C16_OneCompletionWithExitCode ==
    \A w \in RunIds :
        /\ tasks[w].scheduled = (IF tasks[w].pc = "done" THEN 1 ELSE 0)
        /\ tasks[w].pc = "done" =>
                IF children[w].state = "none" THEN tasks[w].rc = 1
                ELSE /\ children[w].state = "exited"
                     /\ tasks[w].rc = children[w].code

\* the numbers of the lines of child c in a sequence of items
LineNumbers(items, c) ==
    LET own == SelectSeq(items, LAMBDA it : it.kind = "line" /\ it.src = c)
    IN  [i \in 1..Len(own) |-> own[i].n]

Increasing(ns) == \A i, j \in 1..Len(ns) : i < j => ns[i] < ns[j]

\* C17 as stated: the lines of a child are in the log, and after it in the
\* queue, in the order the child wrote them; a worker puts one sentinel,
\* and nothing after it.
C17_LinesInOrderSentinelLast ==
    /\ \A c \in RunIds : Increasing(LineNumbers(output_text \o output_queue, c))
    /\ \A w \in RunIds :
        /\ tasks[w].sentinels <= 1
        /\ tasks[w].late_puts = 0
        /\ tasks[w].pc = "done" => tasks[w].sentinels = 1

\* a step of _process_output_queue that takes the sentinel, and one that
\* finds the queue empty
TakesSentinel ==
    /\ output_queue # <<>>
    /\ Head(output_queue).kind = "sentinel"
    /\ output_queue' = Tail(output_queue)

FindsEmpty ==
    /\ output_queue = <<>>
    /\ poller = "get"
    /\ poller' # poller

\* C18: a call of _process_output_queue that finds the queue empty returns
\* rather than waits; one that takes the sentinel stops the busy indicator,
\* clears the handle, schedules no further call, appends nothing and
\* returns, so that it takes nothing more from the queue.
C18_PollerStopsOnSentinel ==
    [][/\ TakesSentinel =>
            /\ progress_bar' = FALSE
            /\ running_process' = 0
            /\ poll_timers' <= poll_timers
            /\ output_text' = output_text
            /\ poller' = "idle"
       /\ FindsEmpty => poller' = "idle" /\ output_queue' = <<>>
       /\ Len(output_queue') < Len(output_queue) =>
            output_queue' = Tail(output_queue)]_vars

\* a tick has put a line into the log, a later one has taken the sentinel
\* of a run that had a child: indicator stopped, handle cleared, poller at
\* rest with no call scheduled
C18_Witness ==
    /\ \E w \in RunIds : /\ tasks[w].sentinels = 1
                         /\ children[w].state = "exited"
                         /\ ~SentinelUnconsumed(w)
    /\ \E i \in 1..Len(output_text) : output_text[i].kind = "line"
    /\ output_queue = <<>>
    /\ ~progress_bar
    /\ running_process = 0
    /\ poller = "idle"
    /\ poll_timers = 0

\* a step of the worker thread of run w
WorkerMoved(w) == tasks[w].pc # "idle" /\ tasks'[w] # tasks[w]

\* C20 as stated: a step of a worker thread changes the queue and nothing
\* else outside the thread: not the handle, not the calls scheduled on the
\* event loop, not the log, the indicator or the timers.
C20_WorkerWritesQueueOnly ==
    [][(\E w \in RunIds : WorkerMoved(w)) =>
            UNCHANGED <<running_process, on_complete_calls, output_text,
                        progress_bar, poll_timers, poller>>]_vars

(***************************************************************************)
(* Specification SpecChain: Build & Install is clicked only while no       *)
(* worker thread runs, so that runs follow one another: an SDK             *)
(* installation and the build it goes on to, or two builds.  flathub is    *)
(* configured and the user agrees to install.  FairChain adds that         *)
(* threads, children and the event loop are scheduled.                     *)
(***************************************************************************)
\* what `flatpak list` shows in these runs
SdkChecks == {"installed", "missing"}

\* no worker thread is between its start and its end
NoWorkerRuns == \A w \in RunIds : tasks[w].pc \in {"idle", "done"}

\* what `flatpak list` shows at the clicks the user makes in this state:
\* there is no click while a worker thread runs or its completion callback
\* waits in the event loop, and a second click finds the SDK installed
Clicks ==
    IF ~NoWorkerRuns \/ on_complete_calls # <<>> THEN {}
    ELSE IF NewRun = 1 THEN SdkChecks
    ELSE IF NewRun = 2 THEN {"installed"}
    ELSE {}

ChildStep == \E c \in RunIds, code \in ExitCodes : child_exit(c, code)

NextChain ==
    \/ \E sdk_check \in Clicks :
            start_build_process(TRUE, BuiltDir, TRUE, 0, FALSE, sdk_check,
                                TRUE, "flathub")
    \/ on_complete
    \/ \E w \in RunIds : WorkerStep(w)
    \/ ChildStep
    \/ _process_output_queue

SpecChain == InitBuilt /\ [][NextChain]_vars

FairChain ==
    /\ SpecChain
    /\ \A w \in RunIds : WF_vars(WorkerStep(w))
    /\ WF_vars(ChildStep)
    /\ WF_vars(_process_output_queue)
    /\ WF_vars(on_complete)

\* a call of _process_output_queue is scheduled or running
Polling == poll_timers > 0 \/ poller = "get"

\* C19 as stated: under fair scheduling whatever is put on the queue, lines
\* and sentinel, is eventually taken from it, the busy indicator is
\* eventually stopped, and polling goes on as long as the sentinel of a
\* started run has not been consumed.
C19_OutputDelivered ==
    /\ (output_queue # <<>>) ~> (output_queue = <<>>)
    /\ progress_bar ~> ~progress_bar
    /\ [](\A w \in RunIds : SentinelUnconsumed(w) => Polling)

(***************************************************************************)
(* Specification SpecAgain: the SDK is missing and flathub is configured;  *)
(* the user agrees to install, and clicks Build & Install a second time    *)
(* while the first installation is being read.  The worker threads of the  *)
(* installations run to their ends, and so do their completion callbacks.  *)
(***************************************************************************)
\* what `flatpak list` shows at the clicks the user makes in this state
AgainClicks ==
    IF \/ NewRun = 1
       \/ NewRun = 2 /\ tasks[1].pc = "read" /\ children[1].state = "running"
    THEN {"missing"} ELSE {}

\* the worker threads of the installations
Installers == {w \in RunIds : tasks[w].kind = "install"}

NextAgain ==
    \/ \E sdk_check \in AgainClicks :
            start_build_process(TRUE, BuiltDir, TRUE, 0, FALSE, sdk_check,
                                TRUE, "flathub")
    \/ on_complete
    \/ \E w \in Installers : WorkerStep(w)
    \/ ChildStep
    \/ _process_output_queue

SpecAgain == InitBuilt /\ [][NextAgain]_vars

\* C21 as stated: a build that was started from the completion callback of
\* an installation was started after the child of that installation had
\* exited with code 0; an installation that ends with another code, or has
\* not ended, starts no build.
C21_BuildOnlyAfterSdkReady ==
    \A w \in RunIds :
        tasks[w].kind = "build" /\ tasks[w].after # 0 =>
            /\ children[tasks[w].after].state = "exited"
            /\ children[tasks[w].after].code = 0

(***************************************************************************)
(* Closing the window: on_closing, handle_global_error, cleanup_resources  *)
(***************************************************************************)
\* cleanup_resources: terminate() on what self._running_process holds, if
\* it holds a process; the temporary files are removed and forgotten
cleanup_resources ==
    /\ children' = IF running_process = 0 THEN children
                   ELSE [children EXCEPT ![running_process].terminated = TRUE]
    /\ disk' = [q \in DOMAIN disk \ temp_files |-> disk[q]]
    /\ temp_files' = {}

\* on_closing, from the window manager, File > Exit or Ctrl+Q: with
\* unsaved changes the user is asked, and quit is the answer
on_closing(quit) ==
    /\ window = "open"
    /\ last' = Outcome("on_closing", "None",
                       IF unsaved_changes
                       THEN <<Dialog("Quit", IF quit THEN "yes" ELSE "no")>>
                       ELSE <<>>,
                       <<>>, <<>>, {})
    /\ IF unsaved_changes /\ ~quit
       THEN UNCHANGED <<children, disk, temp_files, window>>
       ELSE /\ cleanup_resources
            /\ window' = "destroyed"
    /\ UNCHANGED <<formVars, unsaved_changes, last_yml_path,
                   installed_runtimes, installed_sdks, yaml, after_calls,
                   gen_log, hashVars, running_process, output_queue, tasks,
                   output_text, progress_bar, poll_timers, on_complete_calls,
                   poller, last_build_command, depsVars>>

\* handle_global_error, the sys.excepthook: the error is shown, then the
\* window is closed without a question
handle_global_error ==
    /\ window = "open"
    /\ last' = Outcome("handle_global_error", "None",
                       <<Dialog("Fatal Error", "ok")>>, <<>>, <<>>, {})
    /\ cleanup_resources
    /\ window' = "destroyed"
    /\ UNCHANGED <<formVars, unsaved_changes, last_yml_path,
                   installed_runtimes, installed_sdks, yaml, after_calls,
                   gen_log, hashVars, running_process, output_queue, tasks,
                   output_text, progress_bar, poll_timers, on_complete_calls,
                   poller, last_build_command, depsVars>>

(***************************************************************************)
(* Specification SpecClose: the runs of SpecChain, one at a time, in a     *)
(* window that is closed at any moment, by the user or after an uncaught   *)
(* error.  When the process ends its threads end; its children do not.     *)
(***************************************************************************)
\* the worker threads that still run
Alive == IF window = "open" THEN RunIds ELSE {}

\* the clicks of SpecChain, and one checkbox ticked before the window is
\* closed
CloseClicks == IF window = "open" THEN Clicks ELSE {}
CloseToggles == IF window = "open" /\ ~unsaved_changes THEN {"home"} ELSE {}

NextClose ==
    \/ \E sdk_check \in CloseClicks :
            start_build_process(TRUE, BuiltDir, TRUE, 0, FALSE, sdk_check,
                                TRUE, "flathub")
    \/ \E k \in CloseToggles : TogglePermission(k)
    \/ on_complete
    \/ \E w \in Alive : WorkerStep(w)
    \/ ChildStep
    \/ _process_output_queue
    \/ \E quit \in BOOLEAN : on_closing(quit)
    \/ handle_global_error

SpecClose == InitBuilt /\ [][NextClose]_vars

\* C22 as stated: when the window is destroyed, every child that was
\* started and has not exited has been sent a terminate request, and no
\* temporary file is tracked.
C22_CloseTerminatesChildren ==
    [][window = "open" /\ window' = "destroyed" =>
            /\ \A c \in RunIds : children'[c].state = "running" =>
                                    children'[c].terminated
            /\ temp_files' = {}]_vars

(***************************************************************************)
(* Specification SpecIO: the form of InitBuilt is edited, generated again, *)
(* saved and loaded on a file system that can fail.                        *)
(***************************************************************************)
IoErrors == {"none", "open", "write"}

NextIO ==
    \/ \E k \in DOMAIN GenTexts : \E t \in GenTexts[k] : Paste(k, t)
    \/ \E k \in ToggledPerms : TogglePermission(k)
    \/ \E d \in SaveDirAnswers, fail_at \in GenFailPoints :
            generate_files(d, TRUE, fail_at, FALSE)
    \/ \E p \in ConfigAnswers, e \in IoErrors : save_configuration(p, e)
    \/ \E e \in IoErrors \ {"write"} : load_configuration(ConfigPath, e)

SpecIO == InitBuilt /\ [][NextIO]_vars

\* the handler that just ran met a file I/O failure: generate_files after
\* its directory dialog, save_configuration or load_configuration at the
\* file
IoFailure ==
    \/ /\ last.op = "generate_files"
       /\ last.ret = "False"
       /\ \E i \in 1..Len(last.dialogs) : last.dialogs[i].title = "Error"
    \/ /\ last.op \in {"save_configuration", "load_configuration"}
       /\ last.ret = "raises"

\* the failure was caught in the handler and shown to the user
IoFailureReported ==
    /\ last.ret # "raises"
    /\ \E i \in 1..Len(last.dialogs) : last.dialogs[i].title = "Error"

\* C23 as stated: a handler that meets a file I/O failure catches and
\* reports it and ends in an error outcome; it does not clear the
\* unsaved-changes flag, it leaves in place the files there were and the
\* files it wrote, and the window stays open.
C23_IoFailureCaught ==
    [][(last' # last /\ IoFailure') =>
            /\ IoFailureReported'
            /\ unsaved_changes => unsaved_changes'
            /\ DOMAIN disk \cup last'.written \subseteq DOMAIN disk'
            /\ window' = "open"]_vars

\* the rest of C23, without the report: the flag, the files and the window
C23_IoFailureAborts ==
    [][(last' # last /\ IoFailure') =>
            /\ unsaved_changes => unsaved_changes'
            /\ DOMAIN disk \cup last'.written \subseteq DOMAIN disk'
            /\ window' = "open"]_vars

(***************************************************************************)
(* Specification SpecBuild: after the generation of InitBuilt the form is  *)
(* edited, cleared, saved and loaded, the manifest may be deleted from     *)
(* outside, and Build & Install is clicked with every outcome of its       *)
(* checks, until a click has started a run.  The worker thread of that run *)
(* is not followed.                                                        *)
(***************************************************************************)
\* the recorded manifest is deleted by another program
remove_manifest ==
    /\ last_yml_path \in DOMAIN disk
    /\ disk' = [q \in DOMAIN disk \ {last_yml_path} |-> disk[q]]
    /\ UNCHANGED <<formVars, unsaved_changes, last_yml_path,
                   installed_runtimes, installed_sdks, yaml, sessionVars,
                   after_calls, last, gen_log, hashVars, runVars>>

\* the steps of generate_files at which the file system fails: nowhere, at
\* the manifest, at the build script
BuildFailPoints == {0, 1, 5}
SdkCheckOutcomes == {"installed", "missing", "error"}
RemoteOutcomes == {"flathub", "none", "error"}

\* what a click meets: no builder; or a directory dialog that is cancelled
\* or a file system that fails, if generate_files is called; or one of the
\* outcomes of the SDK check, the question and the remote check
ClickInput(found, dir, fail_at, sdk_check, install, remotes) ==
    [found |-> found, dir |-> dir, fail_at |-> fail_at,
     sdk_check |-> sdk_check, install |-> install, remotes |-> remotes]

BuildInputs ==
    {ClickInput(FALSE, BuiltDir, 0, "installed", TRUE, "flathub"),
     ClickInput(TRUE, "", 0, "installed", TRUE, "flathub")}
    \cup {ClickInput(TRUE, BuiltDir, fail_at, "installed", TRUE, "flathub") :
            fail_at \in BuildFailPoints}
    \cup {ClickInput(TRUE, BuiltDir, 0, "error", TRUE, "flathub"),
          ClickInput(TRUE, BuiltDir, 0, "missing", FALSE, "flathub")}
    \cup {ClickInput(TRUE, BuiltDir, 0, "missing", TRUE, remotes) :
            remotes \in RemoteOutcomes}

\* what the clicks made in this state meet
BuildClicks == IF NewRun = 1 THEN BuildInputs ELSE {}

NextBuild ==
    \/ \E k \in ToggledPerms : TogglePermission(k)
    \/ new_project(TRUE)
    \/ save_configuration(ConfigPath, "none")
    \/ load_configuration(ConfigPath, "none")
    \/ remove_manifest
    \/ \E i \in BuildClicks :
            start_build_process(i.found, i.dir, TRUE, i.fail_at, FALSE,
                                i.sdk_check, i.install, i.remotes)

SpecBuild == InitBuilt /\ [][NextBuild]_vars

\* a click of Build & Install on a machine without flatpak-builder
ClickWithoutBuilder ==
    \E i \in BuildInputs :
        start_build_process(FALSE, i.dir, TRUE, i.fail_at, FALSE,
                            i.sdk_check, i.install, i.remotes)

\* C24: when flatpak-builder is not found, start_build_process shows the
\* error and nothing else: no validation dialog and no SDK dialog, no file
\* written, no run started, and the manifest path, the build command, the
\* form and the unsaved-changes flag are as they were.
C24_NoBuilderNothingDone ==
    [][ClickWithoutBuilder =>
            /\ last'.op = "start_build_process"
            /\ last'.dialogs = <<Dialog("Error", "ok")>>
            /\ last'.written = {}
            /\ UNCHANGED <<disk, last_yml_path, last_build_command, gen_log,
                           unsaved_changes, formVars, runVars>>]_vars

\* the click came when a builder that was found would have generated the
\* files of a valid form and started a run
C24_Witness ==
    /\ last.op = "start_build_process"
    /\ last.dialogs = <<Dialog("Error", "ok")>>
    /\ last_yml_path \notin DOMAIN disk
    /\ ValidationErrors = <<>>
    /\ source_path # ""
    /\ NewRun = 1
    /\ last_build_command = <<>>

\* a click of Build & Install on a machine with flatpak-builder
ClickWithBuilder ==
    \E i \in BuildInputs :
        start_build_process(TRUE, i.dir, TRUE, i.fail_at, FALSE,
                            i.sdk_check, i.install, i.remotes)

\* a manifest path is recorded and the file is there
ManifestRecorded == last_yml_path # NoPath /\ last_yml_path \in DOMAIN disk

\* the handler that just ran called validate_configuration, which always
\* ends with one of its three message boxes
ValidationShown(outcome) ==
    \E i \in 1..Len(outcome.dialogs) :
        outcome.dialogs[i].title \in
            {"Validation Failed", "Validation Warnings", "Validation Passed"}

\* the manifest generate_files writes for the form as it is
ManifestOfForm(save_dir) == PathIn(save_dir, Data["appId"] \o <<".yml">>)

\* C28: start_build_process calls generate_files, and so validates the
\* form, exactly when no manifest is recorded or the recorded file is gone.
\* Otherwise it writes nothing and leaves the path alone, and the build it
\* starts is on the recorded path, whatever the form holds now.  When
\* generate_files wrote the manifest, its path is recorded whether or not
\* the call went on to succeed.
C28_GeneratesOnlyWithoutManifest ==
    [][ClickWithBuilder =>
            /\ ValidationShown(last') <=> ~ManifestRecorded
            /\ ManifestRecorded =>
                /\ UNCHANGED <<disk, last_yml_path, gen_log, unsaved_changes>>
                /\ last'.written = {}
                /\ \A w \in RunIds :
                        tasks'[w].kind = "build" /\ tasks[w].kind = "none" =>
                            last_build_command' = BuildCommand(last_yml_path)
            /\ \A d \in SaveDirs :
                    ManifestOfForm(d) \in last'.written =>
                        /\ last_yml_path' = ManifestOfForm(d)
                        /\ last_yml_path' \in DOMAIN disk']_vars

\* a build was started on the recorded manifest after New Project had
\* cleared the form: the form no longer validates and is not the form the
\* manifest was written from
C28_Witness ==
    /\ last.op = "start_build_process"
    /\ last.dialogs = <<>>
    /\ tasks[1].kind = "build"
    /\ last_build_command = BuildCommand(last_yml_path)
    /\ last_yml_path \in DOMAIN disk
    /\ ValidationErrors # <<>>
    /\ gen_log # <<>>
    /\ FormState # gen_log[Len(gen_log)].form

(***************************************************************************)
(* The dependency generator: run_dependency_generator, its thread,         *)
(* _update_deps_result and _create_requirements_txt                        *)
(***************************************************************************)
\* a Python source file: whether ast.parse accepts it, and the Import and
\* ImportFrom nodes ast.walk finds in it; a dotted name is its text with
\* the dots as tokens, and `module` is <<>> for `from . import x`
ImportNode(names) == [node |-> "Import", names |-> names, module |-> <<>>]
ImportFromNode(module) == [node |-> "ImportFrom", names |-> <<>>, module |-> module]
PythonFile(parses, imports) == [kind |-> "python", parses |-> parses, imports |-> imports]

\* sys.stdlib_module_names, and the order sorted() gives the module names
StdlibModuleNames == {"os", "sys"}
ModuleOrder == <<"PIL", "numpy", "os", "requests", "sys">>

\* name.split('.')[0]
RootName(dotted) == Split(dotted, ".")[1][1]

\* the names one file adds to `imports`
ImportsOfNode(n) ==
    IF n.node = "Import" THEN {RootName(n.names[i]) : i \in 1..Len(n.names)}
    ELSE IF n.module # <<>> THEN {RootName(n.module)}
    ELSE {}

ImportsOfFile(file) ==
    IF file.kind = "python" /\ file.parses
    THEN UNION {ImportsOfNode(file.imports[i]) : i \in 1..Len(file.imports)}
    ELSE {}

\* os.walk(source_dir): the files ending in ".py"
PythonSources(d, source_dir) ==
    {q \in DOMAIN d : q[1] = source_dir /\ EndsWithPy(q[2])}

ScannedImports(d, source_dir) ==
    UNION {ImportsOfFile(d[q]) : q \in PythonSources(d, source_dir)}

\* standard_libs
standard_libs == IF stdlib_names THEN StdlibModuleNames ELSE {}

RequirementsPath(source_dir) == PathIn(source_dir, <<"requirements", ".txt">>)
TextFile(text) == [kind |-> "text", text |-> text]

\* _create_requirements_txt: the file system after it
_create_requirements_txt(d, source_dir) ==
    LET imports == ScannedImports(d, source_dir)
        names   == SelectSeq(ModuleOrder,
                             LAMBDA i : i \in imports /\ i \notin standard_libs)
    IN  WriteFile(d, RequirementsPath(source_dir),
                  TextFile(Join([i \in 1..Len(names) |-> <<names[i]>>], "\n")))

\* the lines kept when comment lines are not dropped
LinesWithComments(text) ==
    LET stripped == [i \in 1..Len(Split(text, "\n")) |-> Strip(Split(text, "\n")[i])]
    IN  SelectSeq(stripped, LAMBDA l : l # <<>>)

\* the lines the task keeps
RequirementLines(text) ==
    LET stripped == [i \in 1..Len(Split(text, "\n")) |-> Strip(Split(text, "\n")[i])]
    IN  SelectSeq(stripped, LAMBDA l : l # <<>> /\ l[1] # "#")

install_command(lines) == <<"pip3 install --prefix=/app ">> \o Join(lines, " ")

EmptyNote == <<"# requirements.txt is empty or only contains comments.", "\n">>
NoYamlNote == <<"# PyYAML not found.", "\n">>

\* what the task passes to _update_deps_result
DepsResult(text) ==
    IF RequirementLines(text) = <<>> THEN EmptyNote
    ELSE IF yaml THEN yaml_dump(<<PythonDependencies(install_command(RequirementLines(text)))>>)
    ELSE NoYamlNote

\* the dependency threads and callbacks the model lets be pending at once
MaxDepRuns == 1

\* the "Generate" button of the Dependencies tab; scan is the answer to
\* "Scan project for imports to create one?"
run_dependency_generator(scan) ==
    LET source_dir == source_path
        req_path   == RequirementsPath(source_dir)
        valid      == source_dir # "" /\ IsDir(source_dir)
        asked      == valid /\ req_path \notin DOMAIN disk
        d          == IF asked /\ scan THEN _create_requirements_txt(disk, source_dir)
                      ELSE disk
        empty      == req_path \notin DOMAIN d \/ d[req_path].text = <<>>
        started    == valid /\ ~(asked /\ ~scan) /\ ~empty
    IN  /\ window = "open"
        /\ Len(deps_threads) + Len(deps_calls) < MaxDepRuns
        /\ disk' = d
        /\ deps_threads' = (IF started THEN Append(deps_threads, req_path)
                            ELSE deps_threads)
        /\ progress_bar' = (IF started THEN TRUE ELSE progress_bar)
        /\ last' = Outcome("run_dependency_generator", "None",
                           CASE ~valid          -> <<Dialog("Warning", "ok")>>
                             [] asked /\ ~scan  -> <<Dialog("No requirements.txt", "no")>>
                             [] OTHER           ->
                                 (IF asked THEN <<Dialog("No requirements.txt", "yes")>>
                                  ELSE <<>>)
                                 \o (IF empty THEN <<Dialog("No Dependencies", "ok")>>
                                     ELSE <<>>),
                           <<>>, <<>>,
                           IF asked /\ scan THEN {req_path} ELSE {})
        /\ UNCHANGED <<formVars, unsaved_changes, last_yml_path, installed_runtimes,
                       installed_sdks, yaml, last_build_command, temp_files, window,
                       stdlib_names, deps_calls, after_calls, gen_log, hashVars,
                       running_process, output_queue, tasks, children, output_text,
                       poll_timers, on_complete_calls, poller>>

\* the thread `task`, from open() to the end of its finally clause
dependency_task ==
    /\ deps_threads # <<>>
    /\ LET req_path == Head(deps_threads)
       IN  deps_calls' = deps_calls \o
               << IF req_path \in DOMAIN disk
                  THEN [fn |-> "_update_deps_result", arg |-> DepsResult(disk[req_path].text)]
                  ELSE [fn |-> "showerror", arg |-> <<>>],
                  [fn |-> "progress_bar.stop", arg |-> <<>>] >>
    /\ deps_threads' = Tail(deps_threads)
    /\ UNCHANGED <<formVars, unsaved_changes, last_yml_path, installed_runtimes,
                   installed_sdks, yaml, last_build_command, temp_files, window,
                   stdlib_names, disk, after_calls, last, gen_log, hashVars, runVars>>

\* yaml_output.startswith('#')
StartsWithHash(text) ==
    text # <<>> /\ text[1] \in {"#", EmptyNote[1], NoYamlNote[1]}

\* the event loop runs the oldest callback the threads scheduled
deps_callback ==
    /\ window = "open"
    /\ deps_calls # <<>>
    /\ LET call == Head(deps_calls)
       IN  /\ fields' = (IF call.fn = "_update_deps_result"
                         THEN [fields EXCEPT !["dependencies"] = call.arg]
                         ELSE fields)
           /\ progress_bar' = (IF call.fn = "progress_bar.stop" THEN FALSE
                               ELSE progress_bar)
           /\ last' = Outcome(call.fn, "None",
                              CASE call.fn = "_update_deps_result" ->
                                       IF call.arg # <<>> /\ ~StartsWithHash(call.arg)
                                       THEN <<Dialog("Success", "ok")>>
                                       ELSE <<Dialog("Warning", "ok")>>
                                [] call.fn = "showerror" -> <<Dialog("Error", "ok")>>
                                [] OTHER -> <<>>,
                              <<>>, <<>>, {})
    /\ deps_calls' = Tail(deps_calls)
    /\ UNCHANGED <<combo_values, validation_errors, finish_args_vars, source_path,
                   source_file_sha256, icon_file_path, source_type, selector_command,
                   unsaved_changes, last_yml_path, installed_runtimes,
                   installed_sdks, yaml, last_build_command, temp_files, window,
                   stdlib_names, deps_threads, disk, after_calls, gen_log, hashVars,
                   running_process, output_queue, tasks, children, output_text,
                   poll_timers, on_complete_calls, poller>>

(***************************************************************************)
(* SpecScan: a project whose files are edited while the dependency         *)
(* generator is used, on interpreters with and without                     *)
(* sys.stdlib_module_names, with and without PyYAML                        *)
(***************************************************************************)
\* the files an editor saves: main.py with standard-library imports only or
\* with third-party imports, util.py that does not parse or that has
\* third-party imports, and a text file that is no source file
SourceEdits ==
    { [name |-> <<"main", ".py">>,
       file |-> PythonFile(TRUE, <<ImportNode(<<<<"os">>, <<"sys">>>>),
                                   ImportFromNode(<<"os", ".", "path">>)>>)],
      [name |-> <<"main", ".py">>,
       file |-> PythonFile(TRUE, <<ImportNode(<<<<"requests">>>>),
                                   ImportFromNode(<<"numpy", ".", "linalg">>),
                                   ImportNode(<<<<"requests", ".", "adapters">>, <<"os">>>>),
                                   ImportFromNode(<<>>)>>)],
      [name |-> <<"util", ".py">>,
       file |-> PythonFile(FALSE, <<ImportNode(<<<<"requests">>>>)>>)],
      [name |-> <<"util", ".py">>,
       file |-> PythonFile(TRUE, <<ImportFromNode(<<"PIL", ".", "Image">>),
                                   ImportNode(<<<<"numpy">>>>)>>)],
      [name |-> <<"notes", ".txt">>,
       file |-> PythonFile(TRUE, <<ImportNode(<<<<"sys">>>>)>>)] }

\* requirements.txt as the user wrote it
ReqTexts ==
    { <<>>,
      <<"#", " ", "requests", "\n">>,
      <<"requests", "\n", " ", "#", "numpy", "\n", "\n", " ", "numpy", " ", "\n", "PIL", "\n">>,
      <<"requests", " ", "#", "pinned", "\n">> }

\* an editor saves a source file of the project
EditSource(name, file) ==
    /\ disk' = WriteFile(disk, PathIn(SourceDir, name), file)
    /\ UNCHANGED <<formVars, unsaved_changes, last_yml_path,
                   installed_runtimes, installed_sdks, yaml, sessionVars,
                   after_calls, last, gen_log, hashVars, runVars>>

\* an editor saves requirements.txt
EditRequirements(text) ==
    /\ disk' = WriteFile(disk, RequirementsPath(SourceDir), TextFile(text))
    /\ UNCHANGED <<formVars, unsaved_changes, last_yml_path,
                   installed_runtimes, installed_sdks, yaml, sessionVars,
                   after_calls, last, gen_log, hashVars, runVars>>

\* requirements.txt is deleted
RemoveRequirements ==
    /\ RequirementsPath(SourceDir) \in DOMAIN disk
    /\ disk' = [q \in DOMAIN disk \ {RequirementsPath(SourceDir)} |-> disk[q]]
    /\ UNCHANGED <<formVars, unsaved_changes, last_yml_path,
                   installed_runtimes, installed_sdks, yaml, sessionVars,
                   after_calls, last, gen_log, hashVars, runVars>>

NextScan ==
    \/ select_source_directory(SourceDir)
    \/ \E e \in SourceEdits : EditSource(e.name, e.file)
    \/ \E text \in ReqTexts : EditRequirements(text)
    \/ RemoveRequirements
    \/ \E scan \in BOOLEAN : run_dependency_generator(scan)
    \/ dependency_task
    \/ deps_callback

SpecScan == (\E has_stdlib_names \in BOOLEAN : Constructed(has_stdlib_names)) /\ [][NextScan]_vars

\* the confirmed scan of a project directory that has no requirements.txt
ScanStep ==
    /\ IsDir(source_path)
    /\ RequirementsPath(source_path) \notin DOMAIN disk
    /\ run_dependency_generator(TRUE)

\* the module names the source files of the project import: the first
\* component of every name of a plain import and of the module of every
\* 'from' import, in the files ending in .py that parse
ImportedRoots ==
    {m \in Range(ModuleOrder) :
        \E q \in DOMAIN disk :
            /\ q[1] = source_path
            /\ q[2][Len(q[2])] = ".py"
            /\ disk[q].parses
            /\ \E i \in 1..Len(disk[q].imports) :
                   LET n == disk[q].imports[i]
                   IN  \/ n.node = "Import" /\ \E j \in 1..Len(n.names) : n.names[j][1] = m
                       \/ n.node = "ImportFrom" /\ n.module # <<>> /\ n.module[1] = m}

\* the lines of requirements.txt
WrittenNames ==
    LET text == disk[RequirementsPath(source_path)].text
    IN  IF text = <<>> THEN <<>>
        ELSE [i \in 1..Len(Split(text, "\n")) |-> Split(text, "\n")[i]]

PlaceInOrder(m) == CHOOSE i \in 1..Len(ModuleOrder) : ModuleOrder[i] = m

\* every line is one module name, and the names ascend without repetition
SortedNames(lines) ==
    /\ \A i \in 1..Len(lines) : Len(lines[i]) = 1 /\ lines[i][1] \in Range(ModuleOrder)
    /\ \A i, j \in 1..Len(lines) :
           i < j => PlaceInOrder(lines[i][1]) < PlaceInOrder(lines[j][1])

NamesOf(lines) == {lines[i][1] : i \in 1..Len(lines)}

\* C25 as stated: the scan writes exactly the sorted, duplicate-free set of
\* root module names of the plain and 'from' imports of the source files
\* that parse, minus the standard-library module names.
C25_RequirementsAreThirdParty ==
    [][ScanStep =>
            /\ SortedNames(WrittenNames')
            /\ NamesOf(WrittenNames') = ImportedRoots \ StdlibModuleNames]_vars

\* the same on an interpreter that has sys.stdlib_module_names
C25_WithStdlibNames ==
    [][ScanStep /\ stdlib_names =>
            /\ SortedNames(WrittenNames')
            /\ NamesOf(WrittenNames') = ImportedRoots \ StdlibModuleNames]_vars

\* without sys.stdlib_module_names the list is sorted and free of
\* duplicates, and holds every imported root name
C25_WithoutStdlibNames ==
    [][ScanStep /\ ~stdlib_names =>
            /\ SortedNames(WrittenNames')
            /\ NamesOf(WrittenNames') = ImportedRoots]_vars

\* the thread reads the requirements file
TaskReads == dependency_task /\ Head(deps_threads) \in DOMAIN disk

\* the text the thread read, and the text it passed on
TextRead == disk[Head(deps_threads)].text
ScheduledResult == deps_calls[Len(deps_calls) - 1].arg

\* the event loop runs _update_deps_result
ResultShown == deps_callback /\ Head(deps_calls).fn = "_update_deps_result"

\* the modules a text of the dependencies box stands for
ModulesIn(text) ==
    LET doc == safe_load(text)
    IN  IF doc.kind = "list" THEN doc.items ELSE <<>>

\* line i of the file is blank, or a comment
RECURSIVE FirstInk(_)
FirstInk(line) ==
    IF line = <<>> THEN ""
    ELSE IF Head(line) \in Whitespace THEN FirstInk(Tail(line))
    ELSE Head(line)

\* the non-empty, non-comment lines of the file, without the white space
\* around them, in file order
RemainingLines(text) ==
    LET lines == Split(text, "\n")
        kept  == SelectSeq(lines, LAMBDA l : FirstInk(l) \notin {"", "#"})
    IN  [i \in 1..Len(kept) |-> Strip(kept[i])]

\* one pip3 install invocation naming the lines in order
NamesInOrder(command, lines) ==
    /\ command # <<>>
    /\ command[1] = "pip3 install --prefix=/app "
    /\ Tail(command) = Join(lines, " ")

\* what C26 says of the text the thread passes on
OneInstallModule(text, result) ==
    LET lines   == RemainingLines(text)
        modules == ModulesIn(result)
    IN  IF lines = <<>> THEN modules = <<>>
        ELSE /\ Len(modules) = 1
             /\ modules[1].name = "python-dependencies"
             /\ Len(modules[1].build_commands) = 1
             /\ NamesInOrder(modules[1].build_commands[1], lines)
             /\ "--share=network" \in Range(modules[1].build_args)
             /\ \A i \in 1..Len(Split(text, "\n")) :
                    FirstInk(Split(text, "\n")[i]) = "#" =>
                        \A j \in 1..Len(lines) : lines[j] # Strip(Split(text, "\n")[i])

CompletionOf(w) ==
    /\ on_complete
    /\ Head(on_complete_calls).run = w

\* what run w put on the queue and the poller has not taken yet
Undelivered(w) ==
    SelectSeq(output_queue, LAMBDA it : it.src = w)

\* C27 as stated: the completion callback of a run executes only after
\* every output line of that run has been appended to the log and that
\* run's sentinel has been consumed by the poller.
C27_CompletionAfterOutput ==
    [][\A w \in RunIds : CompletionOf(w) => Undelivered(w) = <<>>]_vars

\* what does hold: when the callback of a run executes, the worker of that
\* run is at its end and has put its sentinel on the queue
C27_CompletionAfterPuts ==
    [][\A w \in RunIds :
            CompletionOf(w) => tasks[w].pc = "done" /\ tasks[w].sentinels = 1]_vars

(***************************************************************************)
(* generate_app_id                                                         *)
(***************************************************************************)
LowerLetters == <<"a","b","c","d","e","f","g","h","i","j","k","l","m",
                  "n","o","p","q","r","s","t","u","v","w","x","y","z">>
UpperLetters == <<"A","B","C","D","E","F","G","H","I","J","K","L","M",
                  "N","O","P","Q","R","S","T","U","V","W","X","Y","Z">>

\* str.lower(), character by character
lower(s) ==
    [i \in 1..Len(s) |->
        IF s[i] \in Upper
        THEN LowerLetters[CHOOSE j \in 1..26 : UpperLetters[j] = s[i]]
        ELSE s[i]]

\* s.replace(' ', '')
WithoutBlanks(s) == SelectSeq(s, LAMBDA c : c # " ")

\* re.sub(r'[^a-z0-9]+', '', value.lower().replace(' ', ''))
Sane(value) ==
    SelectSeq(WithoutBlanks(lower(value)), LAMBDA c : c \in Lower \cup Digit)

IoGithub == <<"i", "o", ".", "g", "i", "t", "h", "u", "b", ".">>

\* f"io.github.{sane_author}.{sane_app_name}"
GeneratedId(author, app_name) == IoGithub \o Sane(author) \o <<".">> \o Sane(app_name)

\* the "Generate" button beside the App ID entry
generate_app_id ==
    LET author   == get_field_value("author")
        app_name == get_field_value("appName")
        written  == /\ author # <<>> /\ app_name # <<>>
                    /\ Sane(author) # <<>> /\ Sane(app_name) # <<>>
    IN  /\ fields' = (IF written
                      THEN [fields EXCEPT !["appId"] = GeneratedId(author, app_name)]
                      ELSE fields)
        /\ validation_errors' =
                (IF written
                 THEN [validation_errors EXCEPT !["appId"] =
                         validate_field_label("appId",
                             FieldValue("appId", GeneratedId(author, app_name)), TRUE)]
                 ELSE validation_errors)
        /\ last' = Outcome("generate_app_id", "None",
                           IF written THEN <<>>
                           ELSE <<Dialog("Cannot Generate ID", "ok")>>,
                           <<>>, <<>>, {})
        /\ UNCHANGED <<combo_values, finish_args_vars, source_path,
                       source_file_sha256, icon_file_path, source_type,
                       selector_command, unsaved_changes, last_yml_path,
                       installed_runtimes, installed_sdks, yaml, sessionVars, disk,
                       after_calls, gen_log, hashVars, runVars>>

(***************************************************************************)
(* SpecAppId: Author and App Name are typed key by key, the identifier is  *)
(* generated from them and the form is validated                           *)
(***************************************************************************)
\* the longest Author and App Name typed
MaxPartLen == 2

\* the keys typed into them: a capital, a digit, a blank and a character
\* that is dropped
PartAlphabet == {"Z", "1", " ", "_"}

NextAppId ==
    \/ \E k \in {"author", "appName"} : \E c \in PartAlphabet :
          /\ Len(on_focus_in(k, fields[k])) < MaxPartLen
          /\ KeyPress(k, c)
    \/ \E k \in {"author", "appName"} : BackSpace(k)
    \/ generate_app_id
    \/ validate_configuration(TRUE)

SpecAppId == Init /\ [][NextAppId]_vars

\* generate_app_id writes an identifier into the App ID entry
IdWritten == generate_app_id /\ last'.dialogs = <<>>

\* the letters and digits of a value, in lower case, in their order
RECURSIVE LettersAndDigits(_)
LettersAndDigits(value) ==
    IF value = <<>> THEN <<>>
    ELSE IF Head(value) \in Lower \cup Digit
    THEN <<Head(value)>> \o LettersAndDigits(Tail(value))
    ELSE IF Head(value) \in Upper
    THEN lower(<<Head(value)>>) \o LettersAndDigits(Tail(value))
    ELSE LettersAndDigits(Tail(value))

\* id is io.github.<author>.<app>, the parts made of the lowercase letters
\* and digits of the Author and App Name values
OfGithubForm(id, author, app_name) ==
    LET parts == Split(id, ".")
    IN  /\ Len(parts) = 4
        /\ parts[1] = <<"i", "o">>
        /\ parts[2] = <<"g", "i", "t", "h", "u", "b">>
        /\ parts[3] = LettersAndDigits(author) /\ parts[3] # <<>>
        /\ parts[4] = LettersAndDigits(app_name) /\ parts[4] # <<>>
        /\ Range(parts[3]) \cup Range(parts[4]) \subseteq Lower \cup Digit

\* the identifier checks of validate_field and validate_configuration accept
\* what the App ID entry holds
IdAccepted ==
    /\ validation_errors["appId"] = ""
    /\ ReverseDnsError \notin Range(ValidationErrors)

\* C29 as stated: an identifier generate_app_id writes has the form
\* io.github.<author>.<app>, built only from lowercase letters and digits of
\* the Author and App Name values, and is accepted by the identifier check
\* of validate_field and validate_configuration; when either sanitized part
\* is empty the App ID field is left unchanged.
C29_GeneratedIdAccepted ==
    [][generate_app_id =>
            /\ IdWritten =>
                   /\ OfGithubForm(fields'["appId"], get_field_value("author"),
                                   get_field_value("appName"))
                   /\ IdAccepted'
            /\ (\/ LettersAndDigits(get_field_value("author")) = <<>>
                \/ LettersAndDigits(get_field_value("appName")) = <<>>)
                   => fields'["appId"] = fields["appId"]]_vars

\* the same without the acceptance: the form of the identifier, and the
\* field left alone when a part is empty
C29_GeneratedIdForm ==
    [][generate_app_id =>
            /\ IdWritten =>
                   OfGithubForm(fields'["appId"], get_field_value("author"),
                                get_field_value("appName"))
            /\ (\/ LettersAndDigits(get_field_value("author")) = <<>>
                \/ LettersAndDigits(get_field_value("appName")) = <<>>)
                   => fields'["appId"] = fields["appId"]]_vars

\* a written identifier is accepted exactly when both of its parts begin
\* with a letter
C29_AcceptedIffLetterFirst ==
    [][IdWritten =>
            (IdAccepted' <=>
                /\ Sane(get_field_value("author"))[1] \in Lower
                /\ Sane(get_field_value("appName"))[1] \in Lower)]_vars

(***************************************************************************)
(* C30: the labels of the permission checkboxes                            *)
(***************************************************************************)
\* the flag in the label of each checkbox of _create_permissions_tab
LabelFlag ==
    [k \in PermKeys |->
        CASE k = "home"       -> "--filesystem=home"
          [] k = "host"       -> "--filesystem=host"
          [] k = "dri"        -> "--device=dri"
          [] k = "usb"        -> "--device=all"
          [] k = "pulseaudio" -> "--socket=pulseaudio"
          [] k = "network"    -> "--share=network"
          [] k = "x11"        -> "--socket=x11"
          [] k = "wayland"    -> "--socket=wayland"]

\* the checkboxes that _generate_finish_args reads
KeysOfPerms == {perms[i].key : i \in 1..Len(perms)}

\* the finish-arguments hold the flag of the label of checkbox k
LabelFlagListed(args, k) == \E i \in 1..Len(args) : args[i] = <<LabelFlag[k]>>

\* C30 as stated: for each of home, host, dri, usb, pulseaudio, network,
\* x11 and wayland, the generated finish-arguments contain the flag shown
\* in the checkbox's label exactly when the checkbox is set.
C30_CheckboxesTakeEffect ==
    last.op = "_generate_finish_args" =>
        \A k \in PermKeys : LabelFlagListed(last.ret, k) <=> finish_args_vars[k]

\* what holds: that is so for the five checkboxes of the `perms`
\* dictionary, and the flags of the other three are never generated
C30_FiveCheckboxesTakeEffect ==
    last.op = "_generate_finish_args" =>
        /\ \A k \in KeysOfPerms : LabelFlagListed(last.ret, k) <=> finish_args_vars[k]
        /\ \A k \in PermKeys \ KeysOfPerms : ~LabelFlagListed(last.ret, k)

=============================================================================
